---- MODULE Spec2Model ----
(***************************************************************************)
(* IronPulse workout tracker: the session logging engine.                  *)
(*                                                                         *)
(*   src/App.tsx                      App state, the load and save effects,*)
(*                                    start / finish / cancel, deletePlan  *)
(*   src/components/ActiveWorkout.tsx findLastWeightForExercise, the       *)
(*                                    initialisation effect, updateSet,    *)
(*                                    toggleComplete, addSet, removeSet    *)
(*   src/components/Stats.tsx         the progression series, the weekly   *)
(*                                    rollup                               *)
(*   src/types.ts                     the data model                       *)
(*                                                                         *)
(* JavaScript values are modelled as follows.                              *)
(*  - an object is a record holding exactly the keys that are present, so  *)
(*    {weight: 5} is [weight |-> 5] and reading a missing key is undefined;*)
(*  - an array is a sequence (index i of the code is position i + 1); a    *)
(*    slot of a sparse array is Hole, an element that is undefined is      *)
(*    UndefinedElem; a property of an array that is no element (sets[-1])  *)
(*    is kept beside the sequence, in the field own of its entry;          *)
(*  - an object used as a map (ActiveSession.exercises) is the sequence of *)
(*    its [id, sets] entries in the order Object.entries walks: the keys   *)
(*    that are array indexes first, the other keys in insertion order; an  *)
(*    entry marked inherited is no key: it holds the array the object has  *)
(*    as its prototype once the key __proto__ was assigned;                *)
(*  - the name of an exercise is the sequence of its UTF-16 code units,    *)
(*    '' being the empty sequence; an id, a key and a label is a string of *)
(*    characters;                                                          *)
(*  - null is a value no string is equal to, the strings 'null' and ''     *)
(*    included;                                                            *)
(*  - a time, and a span between two times, is kept as whole days and the  *)
(*    milliseconds of the day begun, [d, ms], so that spans of weeks are   *)
(*    counted in milliseconds;                                             *)
(*  - the weights, rep counts and volumes of a session and of a record are *)
(*    whole numbers, on which the sums and products of the code are exact; *)
(*    NaN, null and the undefined read of a numeric field are three values *)
(*    outside the range of every weight, rep and volume;                   *)
(*  - the Epley estimate is computed on IEEE 754 doubles: a double is its  *)
(*    sign, its significand and its exponent, and a product, a sum and a   *)
(*    quotient is rounded to the nearest double, ties to even;             *)
(*  - the crypto.randomUUID() identity of a session and of a record is     *)
(*    kept; those of the sets of a session are left out: the sets of a     *)
(*    record are written without them and no code path reads them;         *)
(*  - what localStorage holds under a key is the value JSON.parse makes of *)
(*    it; its size is the length of the text JSON.stringify wrote.         *)
(***************************************************************************)
EXTENDS Integers, Sequences, FiniteSets, TLC

VARIABLES
  view,          \* App: AppView
  plans,         \* App: TrainingPlan[]
  history,       \* App: WorkoutHistory[], newest first
  activePlan,    \* App: TrainingPlan | null
  activeDayId,   \* App: string | null
  storage,       \* localStorage: ironpulse_plans, ironpulse_history
  phase,         \* ActiveWorkout: "idle" | "mounted" | "live" | "crashed"
  props,         \* ActiveWorkout props: day and history
  session,       \* ActiveWorkout state: ActiveSession
  lastWeights,   \* ActiveWorkout state: exercise id -> carried weight
  elapsed,       \* ActiveWorkout state: timer ticks
  now,           \* Date.now(), in milliseconds
  lastOp,        \* the last handler that ran, and whether it changed the session
  calls,         \* SpecCalls only: the number of mutator calls made so far
  stats,         \* Stats state: the selected exercise and the memoised rollup
  manager,       \* PlanManager state: selectedPlan, view, isLoading
  pending        \* the generateWorkoutPlan requests awaited by handleGenerate

vars == <<view, plans, history, activePlan, activeDayId, storage, phase, props,
          session, lastWeights, elapsed, now, lastOp, calls,
          stats, manager, pending>>

-----------------------------------------------------------------------------
(* JavaScript values *)

NaN == -1000000
Undefined == -1000001

\* null, as JSON.parse returns it for a number that was NaN
Null == -1000002

\* the operand of an arithmetic operator: undefined converts to NaN, null to 0
ToNumber(v) == IF v = Undefined THEN NaN ELSE IF v = Null THEN 0 ELSE v

IsNumber(v) == ToNumber(v) # NaN

\* a * b on numbers: NaN is absorbing
JsMul(a, b) == IF IsNumber(a) /\ IsNumber(b) THEN ToNumber(a) * ToNumber(b) ELSE NaN

\* a + b on numbers
JsAdd(a, b) == IF IsNumber(a) /\ IsNumber(b) THEN ToNumber(a) + ToNumber(b) ELSE NaN

\* a > b: false when either side is NaN
JsGreater(a, b) == IsNumber(a) /\ IsNumber(b) /\ ToNumber(a) > ToNumber(b)

\* (1000 * 60 * 60 * 24), the milliseconds of a day
Day == 86400000

\* the time, or the span, of d days and ms milliseconds
Time(d, ms) == [d |-> d, ms |-> ms]

\* the time, or the span, of n milliseconds
Millis(n) == Time(n \div Day, n % Day)

\* t + n for a time t and n milliseconds
TimePlus(t, n) == Time(t.d + ((t.ms + n) \div Day), (t.ms + n) % Day)

\* a - b for two times
TimeMinus(a, b) == Time((a.d - b.d) + ((a.ms - b.ms) \div Day), (a.ms - b.ms) % Day)

\* a < b for two times or two spans
TimeLess(a, b) == a.d < b.d \/ (a.d = b.d /\ a.ms < b.ms)

\* Math.floor(span / 1000)
WholeSeconds(span) == (span.d * (Day \div 1000)) + (span.ms \div 1000)

\* Math.floor(span / Day)
WholeDays(span) == span.d

Hole == [kind |-> "hole"]
UndefinedElem == [kind |-> "undefined"]
EmptyObject == [k \in {} |-> 0]

IsObject(s) == "kind" \notin DOMAIN s

\* o.f for a numeric field f
NumField(o, f) == IF f \in DOMAIN o THEN o[f] ELSE Undefined

\* the truthiness of s.completed
Completed(s) == "completed" \in DOMAIN s /\ s.completed

\* { ...o, [f]: v }
PutField(o, f, v) == [k \in (DOMAIN o) \cup {f} |-> IF k = f THEN v ELSE o[k]]

\* { ...x } where x may be undefined
ObjSpread(x) == IF IsObject(x) THEN x ELSE EmptyObject

\* { weight: w, reps: r, completed: c }; a key whose value is undefined reads
\* the same as a missing key
SetLog(w, r, c) ==
  LET base == [completed |-> c]
      withR == IF r = Undefined THEN base ELSE PutField(base, "reps", r)
  IN IF w = Undefined THEN withR ELSE PutField(withR, "weight", w)

\* [...arr]: the iterator reads a hole as undefined
Spread(arr) ==
  [i \in 1..Len(arr) |-> IF arr[i] = Hole THEN UndefinedElem ELSE arr[i]]

\* arr[i]
At(arr, i) ==
  IF i >= 0 /\ i < Len(arr) /\ arr[i + 1] # Hole THEN arr[i + 1] ELSE UndefinedElem

\* arr[i] = v, the elements: beyond the end the array grows and the gap is
\* holes; a negative index sets a property that is no element
AssignIndex(arr, i, v) ==
  IF i < 0 THEN arr
  ELSE IF i < Len(arr) THEN [arr EXCEPT ![i + 1] = v]
  ELSE arr \o [k \in 1..(i - Len(arr)) |-> Hole] \o <<v>>

\* arr[i] = v on a fresh copy, the properties that are no elements: the one a
\* negative index sets
AssignOwn(i, v) == IF i < 0 THEN <<[index |-> i, value |-> v]>> ELSE <<>>

\* arr[i] for a negative i: the property of that name, if the array has it
AtOwn(own, i) ==
  IF \E k \in 1..Len(own) : own[k].index = i
  THEN own[CHOOSE k \in 1..Len(own) : own[k].index = i].value
  ELSE UndefinedElem

\* a filter that keeps every set, completed or not
FilterEverySet(arr) == SelectSeq(arr, LAMBDA s : s # Hole)

\* arr.filter(s => s.completed): holes are skipped
RECURSIVE FilterCompleted(_)
FilterCompleted(arr) ==
  IF arr = <<>> THEN <<>>
  ELSE IF Head(arr) # Hole /\ Completed(Head(arr))
       THEN <<Head(arr)>> \o FilterCompleted(Tail(arr))
       ELSE FilterCompleted(Tail(arr))

\* a callback reading a property of the element throws on an undefined element
HasUndefinedElem(arr) == \E i \in 1..Len(arr) : arr[i] = UndefinedElem

-----------------------------------------------------------------------------
(* JavaScript strings *)

\* An exercise name is held as the sequence of its UTF-16 code units, so that
\* '' is <<>> and a name of any characters can be written; an id, a key and a
\* label is a string of the characters below.

\* the characters of code units 32 to 95 and of code units 97 to 126, each
\* run in the order of its code units
LowCodeUnits == " !\"#$%&'()*+,-./0123456789:;<=>?@ABCDEFGHIJKLMNOPQRSTUVWXYZ[\\]^_"

HighCodeUnits == "abcdefghijklmnopqrstuvwxyz{|}~"

\* the character at position i of a string, positions counted from 1
CharAt(str, i) == SubSeq(str, i, i)

\* the code unit of each character of the two runs
CodeUnits ==
  [c \in {CharAt(LowCodeUnits, k) : k \in 1..Len(LowCodeUnits)}
          \cup {CharAt(HighCodeUnits, k) : k \in 1..Len(HighCodeUnits)} |->
     IF \E k \in 1..Len(LowCodeUnits) : CharAt(LowCodeUnits, k) = c
     THEN 31 + (CHOOSE k \in 1..Len(LowCodeUnits) : CharAt(LowCodeUnits, k) = c)
     ELSE 96 + (CHOOSE k \in 1..Len(HighCodeUnits) : CharAt(HighCodeUnits, k) = c)]

\* the code unit of a character of the two runs
CodeUnit(c) == CodeUnits[c]

\* the code units of a string of such characters
Utf16(str) == [k \in 1..Len(str) |-> CodeUnit(CharAt(str, k))]

\* a < b on the code units of two strings, from position i on: the first code
\* unit that differs decides, and a string comes before the strings it begins
RECURSIVE StringLessFrom(_, _, _)
StringLessFrom(a, b, i) ==
  IF i > Len(b) THEN FALSE
  ELSE IF i > Len(a) THEN TRUE
  ELSE IF a[i] # b[i] THEN a[i] < b[i]
  ELSE StringLessFrom(a, b, i + 1)

StringLess(a, b) == StringLessFrom(a, b, 1)

\* String(n) of a whole number n >= 0
RECURSIVE Numeral(_)
Numeral(n) ==
  IF n < 10 THEN CharAt("0123456789", n + 1)
  ELSE Numeral(n \div 10) \o CharAt("0123456789", (n % 10) + 1)

\* the greatest array index, 2^32 - 2
MaxArrayIndex == "4294967294"

\* the key is a canonical array index: the decimal numeral, without a
\* leading zero, of a whole number from 0 to 2^32 - 2
IsArrayIndex(id) ==
  /\ Len(id) > 0
  /\ \A i \in 1..Len(id) : CodeUnit(CharAt(id, i)) \in 48..57
  /\ id = "0" \/ CharAt(id, 1) # "0"
  /\ \/ Len(id) < Len(MaxArrayIndex)
     \/ Len(id) = Len(MaxArrayIndex) /\ ~StringLess(Utf16(MaxArrayIndex), Utf16(id))

\* of two array-index keys, a stands for the smaller number
IndexBefore(a, b) ==
  Len(a) < Len(b) \/ (Len(a) = Len(b) /\ StringLess(Utf16(a), Utf16(b)))

-----------------------------------------------------------------------------
(* JavaScript objects used as maps from an id to an array *)

\* the entry is a key of the object itself
IsOwn(entry) == "inherited" \notin DOMAIN entry

\* Object.entries(obj), and what { ...obj } copies: the keys of the object itself
Entries(obj) == SelectSeq(obj, IsOwn)

\* the array the object has as its prototype, as a list of one marked entry;
\* empty while the prototype is Object.prototype
ArrayPrototype(obj) == SelectSeq(obj, LAMBDA e : ~IsOwn(e))

\* id is a key of the object itself
HasKey(obj, id) == \E i \in 1..Len(obj) : IsOwn(obj[i]) /\ obj[i].id = id

\* the functions of Object.prototype, each with its length
ObjectFunctions ==
  <<[name |-> "constructor", length |-> 1],
    [name |-> "__defineGetter__", length |-> 2],
    [name |-> "__defineSetter__", length |-> 2],
    [name |-> "hasOwnProperty", length |-> 1],
    [name |-> "__lookupGetter__", length |-> 1],
    [name |-> "__lookupSetter__", length |-> 1],
    [name |-> "isPrototypeOf", length |-> 1],
    [name |-> "propertyIsEnumerable", length |-> 1],
    [name |-> "toString", length |-> 0],
    [name |-> "valueOf", length |-> 0],
    [name |-> "toLocaleString", length |-> 0]>>

\* the functions of Array.prototype, each with its length
ArrayFunctions ==
  <<[name |-> "constructor", length |-> 1], [name |-> "at", length |-> 1],
    [name |-> "concat", length |-> 1], [name |-> "copyWithin", length |-> 2],
    [name |-> "fill", length |-> 1], [name |-> "find", length |-> 1],
    [name |-> "findIndex", length |-> 1], [name |-> "findLast", length |-> 1],
    [name |-> "findLastIndex", length |-> 1], [name |-> "lastIndexOf", length |-> 1],
    [name |-> "pop", length |-> 0], [name |-> "push", length |-> 1],
    [name |-> "reverse", length |-> 0], [name |-> "shift", length |-> 0],
    [name |-> "unshift", length |-> 1], [name |-> "slice", length |-> 2],
    [name |-> "sort", length |-> 1], [name |-> "splice", length |-> 2],
    [name |-> "includes", length |-> 1], [name |-> "indexOf", length |-> 1],
    [name |-> "join", length |-> 1], [name |-> "keys", length |-> 0],
    [name |-> "entries", length |-> 0], [name |-> "values", length |-> 0],
    [name |-> "forEach", length |-> 1], [name |-> "filter", length |-> 1],
    [name |-> "flat", length |-> 0], [name |-> "flatMap", length |-> 1],
    [name |-> "map", length |-> 1], [name |-> "every", length |-> 1],
    [name |-> "some", length |-> 1], [name |-> "reduce", length |-> 1],
    [name |-> "reduceRight", length |-> 1], [name |-> "toLocaleString", length |-> 0],
    [name |-> "toString", length |-> 0], [name |-> "toReversed", length |-> 0],
    [name |-> "toSorted", length |-> 1], [name |-> "toSpliced", length |-> 2],
    [name |-> "with", length |-> 2]>>

\* the function of that name in a table of functions, if it has one
FunctionNamed(table, name) ==
  SelectSeq(table, LAMBDA f : f.name = name)

\* obj[id] where the object has no key id of its own: what its prototype chain
\* gives.  The chain is Object.prototype, or the array that took its place,
\* then Array.prototype, then Object.prototype; __proto__ reads the prototype
InheritedValue(obj, id) ==
  LET fromObject ==
        IF FunctionNamed(ObjectFunctions, id) # <<>>
        THEN [notAnArray |-> "function", length |-> FunctionNamed(ObjectFunctions, id)[1].length]
        ELSE [notAnArray |-> "undefined"]
  IN IF ArrayPrototype(obj) = <<>>
     THEN IF id = "__proto__" THEN [notAnArray |-> "object"] ELSE fromObject
     ELSE LET arr == ArrayPrototype(obj)[1].sets
          IN IF id = "__proto__" THEN [array |-> arr]
             ELSE IF id = "length" THEN [notAnArray |-> "number", value |-> Len(arr)]
             ELSE IF IsArrayIndex(id) /\ IndexBefore(id, Numeral(Len(arr)))
             THEN [notAnArray |-> "object"]
             ELSE IF FunctionNamed(ArrayFunctions, id) # <<>>
             THEN [notAnArray |-> "function",
                   length |-> FunctionNamed(ArrayFunctions, id)[1].length]
             ELSE fromObject

\* obj[id] || [] is an array: the value of a key of the object, the array
\* that is its prototype, or the [] that stands in for undefined and for 0
ArrayAt(obj, id) ==
  \/ HasKey(obj, id)
  \/ "array" \in DOMAIN InheritedValue(obj, id)
  \/ InheritedValue(obj, id) \in {[notAnArray |-> "undefined"],
                                  [notAnArray |-> "number", value |-> 0]}

\* obj[id] || []
SetsOf(obj, id) ==
  IF HasKey(obj, id)
  THEN obj[CHOOSE i \in 1..Len(obj) : IsOwn(obj[i]) /\ obj[i].id = id].sets
  ELSE IF "array" \in DOMAIN InheritedValue(obj, id) THEN InheritedValue(obj, id).array
  ELSE IF ArrayAt(obj, id) THEN <<>>
  ELSE InheritedValue(obj, id)

\* the properties of the array obj[id] that are no elements
OwnOf(obj, id) ==
  IF HasKey(obj, id)
       /\ "own" \in DOMAIN obj[CHOOSE i \in 1..Len(obj) : IsOwn(obj[i]) /\ obj[i].id = id]
  THEN obj[CHOOSE i \in 1..Len(obj) : IsOwn(obj[i]) /\ obj[i].id = id].own
  ELSE <<>>

\* the keys of an object with one more key, as Object.entries shows them: an
\* existing key keeps its place, a new array-index key goes after the smaller
\* array-index keys and before every other key, any other new key goes last
InsertEntry(own, entry) ==
  IF \E i \in 1..Len(own) : own[i].id = entry.id
  THEN [i \in 1..Len(own) |-> IF own[i].id = entry.id THEN entry ELSE own[i]]
  ELSE IF IsArrayIndex(entry.id)
  THEN LET n == Cardinality({i \in 1..Len(own) :
                               /\ IsArrayIndex(own[i].id)
                               /\ IndexBefore(own[i].id, entry.id)})
       IN SubSeq(own, 1, n) \o <<entry>> \o SubSeq(own, n + 1, Len(own))
  ELSE Append(own, entry)

\* { ...obj, [entry.id]: ... }: a new object of the keys of obj and the
\* computed key, __proto__ included, with Object.prototype as its prototype
PutEntry(obj, entry) == InsertEntry(Entries(obj), entry)

\* obj[entry.id] = ... : the key __proto__, unless the object has it as a key
\* of its own, reaches the setter of Object.prototype, which makes an array
\* the prototype, ignores a number and creates no key; any other key is put
AssignEntry(obj, entry) ==
  IF entry.id = "__proto__" /\ ~HasKey(obj, "__proto__")
  THEN IF "sets" \in DOMAIN entry
       THEN Entries(obj) \o <<[id |-> "__proto__", sets |-> entry.sets, inherited |-> TRUE]>>
       ELSE obj
  ELSE InsertEntry(Entries(obj), entry) \o ArrayPrototype(obj)

\* { ...obj, [id]: sets } where the array sets has the properties own
PutArray(obj, id, sets, own) ==
  PutEntry(obj, IF own = <<>> THEN [id |-> id, sets |-> sets]
                ELSE [id |-> id, sets |-> sets, own |-> own])

\* { ...obj, [id]: sets }
PutKey(obj, id, sets) == PutArray(obj, id, sets, <<>>)

\* Object.keys(obj)
Keys(obj) == {Entries(obj)[i].id : i \in 1..Len(Entries(obj))}

-----------------------------------------------------------------------------
(* ActiveWorkout.tsx: the carried-forward weight *)

\* record.exercises.find(e => e.name === exerciseName): the position of the
\* first entry with that name, 0 when there is none
FindByName(exercises, exerciseName) ==
  IF \E i \in 1..Len(exercises) : exercises[i].name = exerciseName
  THEN CHOOSE i \in 1..Len(exercises) :
         /\ exercises[i].name = exerciseName
         /\ \A j \in 1..(i - 1) : exercises[j].name # exerciseName
  ELSE 0

\* [...sets].reverse().find(s => s.completed): the position of the last
\* completed set, 0 when there is none
LastCompletedIndex(sets) ==
  IF \E i \in 1..Len(sets) : Completed(sets[i])
  THEN CHOOSE i \in 1..Len(sets) :
         /\ Completed(sets[i])
         /\ \A j \in (i + 1)..Len(sets) : ~Completed(sets[j])
  ELSE 0

\* a variant that carries the weight of the literal last set whatever is completed
EntryWeightLiteralLast(sets) == NumField(sets[Len(sets)], "weight")

\* the weight the matched entry carries forward
EntryWeight(sets) ==
  IF LastCompletedIndex(sets) # 0
  THEN NumField(sets[LastCompletedIndex(sets)], "weight")
  ELSE NumField(sets[Len(sets)], "weight")

\* a variant that lets the oldest matching record decide
RECURSIVE ScanHistoryOldestFirst(_, _, _)
ScanHistoryOldestFirst(exerciseName, hist, i) ==
  IF i > Len(hist) THEN 0
  ELSE LET record == hist[Len(hist) + 1 - i]
           k == IF "exercises" \in DOMAIN record
                THEN FindByName(record.exercises, exerciseName)
                ELSE 0
       IN IF k # 0 /\ Len(record.exercises[k].sets) > 0
          THEN EntryWeight(record.exercises[k].sets)
          ELSE ScanHistoryOldestFirst(exerciseName, hist, i + 1)

\* the for loop over history, from record i on
RECURSIVE ScanHistory(_, _, _)
ScanHistory(exerciseName, hist, i) ==
  IF i > Len(hist) THEN 0
  ELSE LET record == hist[i]
           k == IF "exercises" \in DOMAIN record
                THEN FindByName(record.exercises, exerciseName)
                ELSE 0
       IN IF k # 0 /\ Len(record.exercises[k].sets) > 0
          THEN EntryWeight(record.exercises[k].sets)
          ELSE ScanHistory(exerciseName, hist, i + 1)

findLastWeightForExercise(exerciseName, hist) == ScanHistory(exerciseName, hist, 1)

\* a variant in which the reversal is done on the entry's own list
SetsReversedInPlace(sets) == [n \in 1..Len(sets) |-> sets[Len(sets) + 1 - n]]

\* [...exerciseLog.sets].reverse(): the reversal is done on a copy, and the
\* entry's own list is what it was
SetsAfterReverse(sets) == sets

\* the history as the for loop from record i on leaves it: the one entry it
\* searches for a completed set is the entry that decides
RECURSIVE HistoryAfterScan(_, _, _)
HistoryAfterScan(exerciseName, hist, i) ==
  IF i > Len(hist) THEN hist
  ELSE LET record == hist[i]
           k == IF "exercises" \in DOMAIN record
                THEN FindByName(record.exercises, exerciseName)
                ELSE 0
       IN IF k # 0 /\ Len(record.exercises[k].sets) > 0
          THEN [hist EXCEPT ![i].exercises[k].sets = SetsAfterReverse(@)]
          ELSE HistoryAfterScan(exerciseName, hist, i + 1)

\* the history after one scan for each exercise of the day, from exercise i on
RECURSIVE HistoryAfterInit(_, _, _)
HistoryAfterInit(exs, hist, i) ==
  IF i > Len(exs) THEN hist
  ELSE HistoryAfterInit(exs, HistoryAfterScan(exs[i].name, hist, 1), i + 1)

-----------------------------------------------------------------------------
(* ActiveWorkout.tsx: the initialisation effect *)

\* a variant whose loop runs once more
InitialSetsOneMore(targetSets, lastWeight) ==
  [i \in 1..(targetSets + 1) |-> SetLog(lastWeight, 0, FALSE)]

\* for (let i = 0; i < ex.targetSets; i++) sets.push({reps: 0, weight: lastWeight, completed: false})
InitialSets(targetSets, lastWeight) ==
  [i \in 1..targetSets |-> SetLog(lastWeight, 0, FALSE)]

\* day.exercises.forEach(ex => initialExercises[ex.id] = sets), from exercise i on
RECURSIVE InitialExercisesFrom(_, _, _, _)
InitialExercisesFrom(exs, hist, i, acc) ==
  IF i > Len(exs) THEN acc
  ELSE InitialExercisesFrom(exs, hist, i + 1,
         AssignEntry(acc, [id |-> exs[i].id,
                           sets |-> InitialSets(exs[i].targetSets,
                                                findLastWeightForExercise(exs[i].name,
                                                                          hist))]))

InitialExercises(day, hist) == InitialExercisesFrom(day.exercises, hist, 1, <<>>)

\* day.exercises.forEach(ex => initialLastWeights[ex.id] = lastWeight), from
\* exercise i on
RECURSIVE InitialLastWeightsFrom(_, _, _, _)
InitialLastWeightsFrom(exs, hist, i, acc) ==
  IF i > Len(exs) THEN acc
  ELSE InitialLastWeightsFrom(exs, hist, i + 1,
         AssignEntry(acc, [id |-> exs[i].id,
                           weight |-> findLastWeightForExercise(exs[i].name, hist)]))

InitialLastWeights(day, hist) == InitialLastWeightsFrom(day.exercises, hist, 1, <<>>)

\* findLastWeightForExercise iterates its history argument: for...of over
\* undefined throws a TypeError, and it is called once per exercise of the day
InitEffectThrows(day, historyProp) ==
  Len(day.exercises) > 0 /\ ~historyProp.defined

-----------------------------------------------------------------------------
(* ActiveWorkout.tsx: the session mutators, as the functions handed to setSession *)

\* a variant that writes the value into every set of the exercise's list
updateSetWholeList(prev, exerciseId, setIndex, field, value) ==
  LET copy == SetsOf(prev.exercises, exerciseId)
  IN [prev EXCEPT !.exercises =
        PutKey(@, exerciseId, [n \in 1..Len(copy) |-> PutField(copy[n], field, value)])]

\* [...x] of a value that is no array, a function or Object.prototype, throws
\* a TypeError: the value is not iterable
SpreadThrows(prev, exerciseId) == ~ArrayAt(prev.exercises, exerciseId)

\* updateSet where the spread does not throw
updateSet(prev, exerciseId, setIndex, field, value) ==
  LET copy == Spread(SetsOf(prev.exercises, exerciseId))
      written == PutField(ObjSpread(At(copy, setIndex)), field, value)
  IN [prev EXCEPT !.exercises =
        PutArray(@, exerciseId, AssignIndex(copy, setIndex, written),
                 AssignOwn(setIndex, written))]

\* the spread throws, or sets[setIndex].completed reads a property of
\* undefined when the index addresses no element
toggleCompleteThrows(prev, exerciseId, setIndex) ==
  \/ SpreadThrows(prev, exerciseId)
  \/ ~IsObject(At(Spread(SetsOf(prev.exercises, exerciseId)), setIndex))

toggleComplete(prev, exerciseId, setIndex) ==
  LET copy == Spread(SetsOf(prev.exercises, exerciseId))
      old == At(copy, setIndex)
      written == PutField(ObjSpread(old), "completed", ~Completed(old))
  IN [prev EXCEPT !.exercises =
        PutArray(@, exerciseId, AssignIndex(copy, setIndex, written),
                 AssignOwn(setIndex, written))]

\* a variant whose new set never copies the last one
addSetBlank(prev, exerciseId) ==
  LET currentSets == SetsOf(prev.exercises, exerciseId)
  IN [prev EXCEPT !.exercises =
        PutKey(@, exerciseId, Spread(currentSets) \o <<SetLog(0, 0, FALSE)>>)]

\* addSet where the spread does not throw
addSet(prev, exerciseId) ==
  LET currentSets == SetsOf(prev.exercises, exerciseId)
      \* currentSets[currentSets.length - 1]: of an empty array, its property -1
      last == IF Len(currentSets) = 0
              THEN AtOwn(OwnOf(prev.exercises, exerciseId), 0 - 1)
              ELSE At(currentSets, Len(currentSets) - 1)
      lastSet == IF IsObject(last) THEN last ELSE [weight |-> 0, reps |-> 0]
      added == SetLog(NumField(lastSet, "weight"), NumField(lastSet, "reps"), FALSE)
  IN [prev EXCEPT !.exercises =
        PutKey(@, exerciseId, Spread(currentSets) \o <<added>>)]

\* the floor test written as length < 1
removeSetToEmpty(prev, exerciseId) ==
  LET currentSets == SetsOf(prev.exercises, exerciseId)
  IN IF ~ArrayAt(prev.exercises, exerciseId) \/ Len(currentSets) < 1 THEN prev
     ELSE [prev EXCEPT !.exercises =
             PutKey(@, exerciseId, SubSeq(currentSets, 1, Len(currentSets) - 1))]

\* currentSets.length <= 1 of a value that is no array: the length of a
\* function, or undefined, which is not <= 1
ShortOrSingle(prev, exerciseId) ==
  LET currentSets == SetsOf(prev.exercises, exerciseId)
  IN IF ArrayAt(prev.exercises, exerciseId) THEN Len(currentSets) <= 1
     ELSE "length" \in DOMAIN currentSets /\ currentSets.length <= 1

\* currentSets.slice is undefined on a value that is no array, and calling
\* it throws a TypeError
removeSetThrows(prev, exerciseId) ==
  ~ArrayAt(prev.exercises, exerciseId) /\ ~ShortOrSingle(prev, exerciseId)

\* removeSet where slice does not throw
removeSet(prev, exerciseId) ==
  LET currentSets == SetsOf(prev.exercises, exerciseId)
  IN IF ShortOrSingle(prev, exerciseId) THEN prev
     ELSE [prev EXCEPT !.exercises =
             PutKey(@, exerciseId, SubSeq(currentSets, 1, Len(currentSets) - 1))]

\* the render after a state change: sets.map((set, idx) => ... set.id ...)
\* over the lists of the day's exercises skips holes and throws on an
\* element that is undefined; map is undefined on a value that is no array
RenderThrows(sess, day) ==
  \E i \in 1..Len(day.exercises) :
    \/ ~ArrayAt(sess.exercises, day.exercises[i].id)
    \/ HasUndefinedElem(SetsOf(sess.exercises, day.exercises[i].id))

-----------------------------------------------------------------------------
(* App.tsx: handleFinishWorkout *)

\* "Unknown Exercise"
UnknownExercise == Utf16("Unknown Exercise")

\* exerciseDef ? exerciseDef.name : "Unknown Exercise", for
\* exerciseDef = day.exercises.find(e => e.id === exId)
ExerciseName(day, exId) ==
  IF \E i \in 1..Len(day.exercises) : day.exercises[i].id = exId
  THEN day.exercises[CHOOSE i \in 1..Len(day.exercises) :
                       /\ day.exercises[i].id = exId
                       /\ \A j \in 1..(i - 1) : day.exercises[j].id # exId].name
  ELSE UnknownExercise

\* volume = s.weight * s.reps in place of volume += ...
AddVolumeAssign(volume, completedSets) ==
  IF completedSets = <<>> THEN volume
  ELSE JsMul(NumField(completedSets[Len(completedSets)], "weight"),
             NumField(completedSets[Len(completedSets)], "reps"))

\* completedSets.forEach(s => volume += s.weight * s.reps)
RECURSIVE AddVolume(_, _)
AddVolume(volume, completedSets) ==
  IF completedSets = <<>> THEN volume
  ELSE AddVolume(JsAdd(volume, JsMul(NumField(Head(completedSets), "weight"),
                                     NumField(Head(completedSets), "reps"))),
                 Tail(completedSets))

\* completedSets.map(s => ({weight: s.weight, reps: s.reps, completed: s.completed}))
LogSets(completedSets) ==
  [i \in 1..Len(completedSets) |->
     SetLog(NumField(completedSets[i], "weight"),
            NumField(completedSets[i], "reps"),
            completedSets[i].completed)]

\* Object.entries(session.exercises).forEach(...), from entry i on
\* a variant that logs an entry for every exercise, completed sets or not
RECURSIVE FinishFoldEveryEntry(_, _, _, _)
FinishFoldEveryEntry(entries, day, i, acc) ==
  IF i > Len(entries) THEN acc
  ELSE LET completedSets == FilterCompleted(entries[i].sets)
       IN FinishFoldEveryEntry(entries, day, i + 1,
            [volume |-> AddVolume(acc.volume, completedSets),
             exercisesDone |-> acc.exercisesDone + 1,
             detailedExercises |->
               Append(acc.detailedExercises,
                      [name |-> ExerciseName(day, entries[i].id),
                       sets |-> LogSets(completedSets)])])

RECURSIVE FinishFold(_, _, _, _)
FinishFold(entries, day, i, acc) ==
  IF i > Len(entries) THEN acc
  ELSE LET completedSets == FilterCompleted(entries[i].sets)
       IN IF Len(completedSets) > 0
          THEN FinishFold(entries, day, i + 1,
                 [volume |-> AddVolume(acc.volume, completedSets),
                  exercisesDone |-> acc.exercisesDone + 1,
                  detailedExercises |->
                    Append(acc.detailedExercises,
                           [name |-> ExerciseName(day, entries[i].id),
                            sets |-> LogSets(completedSets)])])
          ELSE FinishFold(entries, day, i + 1, acc)

\* the WorkoutHistory record built from the session: id is what
\* crypto.randomUUID() returns (uuid), date is Date.now() as read first (t),
\* durationSeconds is taken from Date.now() as read again (later)
FinishRecord(uuid, sess, plan, day, t, later) ==
  LET acc == FinishFold(Entries(sess.exercises), day, 1,
                        [volume |-> 0, exercisesDone |-> 0, detailedExercises |-> <<>>])
  IN [id |-> uuid,
      date |-> t,
      planName |-> plan.name,
      dayName |-> day.name,
      durationSeconds |-> WholeSeconds(TimeMinus(later, sess.startTime)),
      totalVolume |-> acc.volume,
      exercisesCompleted |-> acc.exercisesDone,
      exercises |-> acc.detailedExercises]

\* sets.filter(s => s.completed) reads a property of an undefined element
FinishThrows(sess) ==
  \E i \in 1..Len(Entries(sess.exercises)) : HasUndefinedElem(Entries(sess.exercises)[i].sets)

-----------------------------------------------------------------------------
(* IEEE 754 double precision, the Number of JavaScript, for the arithmetic   *)
(* of Stats.tsx 50.  A whole number of any size is the sequence of its       *)
(* digits to the base 2^15, the least significant first, without leading     *)
(* zeros; a finite double is sign, significand m and exponent e, standing    *)
(* for m * 2^e, with m below 2^53 and either m at least 2^52 or e = -1074.   *)

\* the bits of a digit
LimbBits == 15

\* the base of the digits
Limb == 2 ^ LimbBits

\* the bits of a significand
Precision == 53

\* the exponent of the subnormal doubles, and the greatest exponent
MinExponent == 0 - 1074
MaxExponent == 1024 - Precision

\* the extra bits a quotient is computed to
GuardBits == 4 * LimbBits

\* 2^r for r below the bits of a digit
PowerOfTwo == [r \in 0..LimbBits |-> 2 ^ r]

\* the digits without leading zeros
RECURSIVE Trim(_)
Trim(a) == IF a # <<>> /\ a[Len(a)] = 0 THEN Trim(SubSeq(a, 1, Len(a) - 1)) ELSE a

\* the digits of a whole number n >= 0
RECURSIVE Digits(_)
Digits(n) == IF n = 0 THEN <<>> ELSE <<n % Limb>> \o Digits(n \div Limb)

\* a + b + carry, from digit i on
RECURSIVE BigAddFrom(_, _, _, _)
BigAddFrom(a, b, i, carry) ==
  IF i > Len(a) /\ i > Len(b) THEN (IF carry = 0 THEN <<>> ELSE <<carry>>)
  ELSE LET s == (IF i <= Len(a) THEN a[i] ELSE 0) + (IF i <= Len(b) THEN b[i] ELSE 0) + carry
       IN <<s % Limb>> \o BigAddFrom(a, b, i + 1, s \div Limb)

BigAdd(a, b) == BigAddFrom(a, b, 1, 0)

\* a - b - borrow for a >= b, from digit i on
RECURSIVE BigSubFrom(_, _, _, _)
BigSubFrom(a, b, i, borrow) ==
  IF i > Len(a) THEN <<>>
  ELSE LET d == (a[i] - (IF i <= Len(b) THEN b[i] ELSE 0)) - borrow
       IN <<d % Limb>> \o BigSubFrom(a, b, i + 1, IF d < 0 THEN 1 ELSE 0)

BigSub(a, b) == Trim(BigSubFrom(a, b, 1, 0))

\* a * d + carry for a digit d, from digit i on
RECURSIVE BigTimesFrom(_, _, _, _)
BigTimesFrom(a, d, i, carry) ==
  IF i > Len(a) THEN (IF carry = 0 THEN <<>> ELSE <<carry>>)
  ELSE LET p == (a[i] * d) + carry
       IN <<p % Limb>> \o BigTimesFrom(a, d, i + 1, p \div Limb)

BigTimes(a, d) == Trim(BigTimesFrom(a, d, 1, 0))

\* a * b, from digit i of b on
RECURSIVE BigMulFrom(_, _, _)
BigMulFrom(a, b, i) ==
  IF i > Len(b) THEN <<>>
  ELSE BigAdd(BigTimes(a, b[i]), <<0>> \o BigMulFrom(a, b, i + 1))

BigMul(a, b) == Trim(BigMulFrom(a, b, 1))

\* the quotient and the remainder of a by a digit d > 0, from digit i down
RECURSIVE BigDivFrom(_, _, _, _)
BigDivFrom(a, d, i, rem) ==
  IF i = 0 THEN [quotient |-> <<>>, remainder |-> rem]
  ELSE LET n == (rem * Limb) + a[i]
           rest == BigDivFrom(a, d, i - 1, n % d)
       IN [quotient |-> rest.quotient \o <<n \div d>>, remainder |-> rest.remainder]

BigDiv(a, d) ==
  LET r == BigDivFrom(a, d, Len(a), 0)
  IN [quotient |-> Trim(r.quotient), remainder |-> r.remainder]

\* a * 2^k
BigShiftLeft(a, k) ==
  IF a = <<>> THEN <<>>
  ELSE [i \in 1..(k \div LimbBits) |-> 0] \o BigTimes(a, PowerOfTwo[k % LimbBits])

\* floor(a / 2^k)
BigShiftRight(a, k) ==
  IF k \div LimbBits >= Len(a) THEN <<>>
  ELSE BigDiv(SubSeq(a, (k \div LimbBits) + 1, Len(a)), PowerOfTwo[k % LimbBits]).quotient

\* the number of bits of a digit
RECURSIVE LimbLength(_)
LimbLength(d) == IF d = 0 THEN 0 ELSE 1 + LimbLength(d \div 2)

\* the number of bits of a
BitLength(a) ==
  IF a = <<>> THEN 0 ELSE ((Len(a) - 1) * LimbBits) + LimbLength(a[Len(a)])

IsOdd(a) == a # <<>> /\ a[1] % 2 = 1

\* a < b, decided from digit i down, for numbers of as many digits
RECURSIVE BigLessFrom(_, _, _)
BigLessFrom(a, b, i) ==
  IF i = 0 THEN FALSE
  ELSE IF a[i] # b[i] THEN a[i] < b[i]
  ELSE BigLessFrom(a, b, i - 1)

BigLess(a, b) == Len(a) < Len(b) \/ (Len(a) = Len(b) /\ BigLessFrom(a, b, Len(a)))

NotANumber == [kind |-> "NaN"]
Infinity(sign) == [kind |-> "Infinity", sign |-> sign]
Finite(sign, m, e) == [kind |-> "finite", sign |-> sign, m |-> m, e |-> e]
Zero(sign) == Finite(sign, <<>>, MinExponent)

\* the double nearest to (m + f) * 2^e, where 0 <= f < 1 and inexact tells
\* that f is not 0; of two nearest doubles, the one whose significand is even
Round(sign, m, e, inexact) ==
  IF m = <<>> /\ ~inexact THEN Zero(sign) ELSE
  LET target == IF e + BitLength(m) - Precision > MinExponent
                THEN e + BitLength(m) - Precision ELSE MinExponent
      k == target - e
  IN IF k <= 0 THEN Finite(sign, BigShiftLeft(m, 0 - k), target)
     ELSE LET kept == BigShiftRight(m, k)
              half == IsOdd(BigShiftRight(m, k - 1))
              below == inexact \/ BigShiftLeft(BigShiftRight(m, k - 1), k - 1) # m
              up == half /\ (below \/ IsOdd(kept))
              rounded == IF up THEN BigAdd(kept, <<1>>) ELSE kept
              carried == BitLength(rounded) > Precision
              exponent == IF carried THEN target + 1 ELSE target
          IN IF exponent > MaxExponent THEN Infinity(sign)
             ELSE Finite(sign, IF carried THEN BigShiftRight(rounded, 1) ELSE rounded,
                         exponent)

\* the double of a whole number
DoubleOf(n) == IF n < 0 THEN Round(1, Digits(0 - n), 0, FALSE) ELSE Round(0, Digits(n), 0, FALSE)

\* a * b
DoubleMul(a, b) ==
  IF a = NotANumber \/ b = NotANumber THEN NotANumber
  ELSE LET sign == (a.sign + b.sign) % 2
       IN IF a.kind = "Infinity" \/ b.kind = "Infinity"
          THEN IF a = Zero(a.sign) \/ b = Zero(b.sign) THEN NotANumber ELSE Infinity(sign)
          ELSE Round(sign, BigMul(a.m, b.m), a.e + b.e, FALSE)

\* a + b
DoubleAdd(a, b) ==
  IF a = NotANumber \/ b = NotANumber THEN NotANumber
  ELSE IF a.kind = "Infinity"
  THEN IF b.kind = "Infinity" /\ b.sign # a.sign THEN NotANumber ELSE a
  ELSE IF b.kind = "Infinity" THEN b
  \* an operand smaller than a quarter of the last place of the other is
  \* rounded away
  ELSE IF a.e - b.e > GuardBits THEN a
  ELSE IF b.e - a.e > GuardBits THEN b
  ELSE LET e == IF a.e < b.e THEN a.e ELSE b.e
           ma == BigShiftLeft(a.m, a.e - e)
           mb == BigShiftLeft(b.m, b.e - e)
       IN IF a.sign = b.sign THEN Round(a.sign, BigAdd(ma, mb), e, FALSE)
          ELSE IF ma = mb THEN Zero(0)
          ELSE IF BigLess(ma, mb) THEN Round(b.sign, BigSub(mb, ma), e, FALSE)
          ELSE Round(a.sign, BigSub(ma, mb), e, FALSE)

\* a / d for a whole number d from 1 to 2^15
DoubleDiv(a, d) ==
  IF a = NotANumber \/ a.kind = "Infinity" THEN a
  ELSE LET q == BigDiv(BigShiftLeft(a.m, GuardBits), d)
       IN Round(a.sign, q.quotient, a.e - GuardBits, q.remainder # 0)

\* a < b on doubles that are finite and not negative
MagnitudeLess(a, b) == a.e < b.e \/ (a.e = b.e /\ BigLess(a.m, b.m))

\* a > b: false when either side is NaN
DoubleGreater(a, b) ==
  /\ a # NotANumber
  /\ b # NotANumber
  /\ IF a.kind = "Infinity" THEN a.sign = 0 /\ b # a
     ELSE IF b.kind = "Infinity" THEN b.sign = 1
     ELSE IF a.m = <<>> /\ b.m = <<>> THEN FALSE
     ELSE IF a.sign # b.sign THEN a.sign = 0
     ELSE IF a.sign = 0 THEN MagnitudeLess(b, a)
     ELSE MagnitudeLess(a, b)

\* the double a weight or a rep count of the model stands for, as the operand
\* of an arithmetic operator: undefined converts to NaN, null to 0
ToDouble(v) == IF IsNumber(v) THEN DoubleOf(ToNumber(v)) ELSE NotANumber

-----------------------------------------------------------------------------
(* Stats.tsx: the progression series of the selected exercise.  The weights, *)
(* the rep counts and the volumes are whole numbers, whose products and sums *)
(* are exact in doubles; the Epley estimate weight * (1 + reps / 30) is not, *)
(* and is computed in doubles.                                               *)

\* the names uniqueExercises collects: of every detail entry of every record
ExerciseNames(hist) ==
  UNION {{hist[i].exercises[k].name : k \in 1..Len(hist[i].exercises)} :
           i \in {j \in 1..Len(hist) : "exercises" \in DOMAIN hist[j]}}

\* a variant of the estimate that leaves the repetitions out
oneRepMaxFlat(weight, reps) == weight

\* const oneRepMax = s.weight * (1 + s.reps / 30), on doubles
oneRepMax(weight, reps) == DoubleMul(weight, DoubleAdd(DoubleOf(1), DoubleDiv(reps, 30)))

\* the greatest whole weight and rep count whose estimate is tabulated
MaxTabulated == 6

\* the estimates of the sets whose weight and rep count are whole numbers up
\* to MaxTabulated, each computed once
Estimates ==
  [w \in 0..MaxTabulated, r \in 0..MaxTabulated |-> oneRepMax(DoubleOf(w), DoubleOf(r))]

\* the estimate of a set of the model: s.weight * (1 + s.reps / 30) on the
\* doubles its weight and its rep count stand for
SetEstimate(w, r) ==
  IF w \in 0..MaxTabulated /\ r \in 0..MaxTabulated THEN Estimates[w, r]
  ELSE oneRepMax(ToDouble(w), ToDouble(r))

\* exData.sets.forEach(s => { if (s.completed) ... }), from set i on
RECURSIVE SetsFold(_, _, _)
SetsFold(sets, i, acc) ==
  IF i > Len(sets) THEN acc
  ELSE IF ~Completed(sets[i]) THEN SetsFold(sets, i + 1, acc)
  ELSE LET w == NumField(sets[i], "weight")
           r == NumField(sets[i], "reps")
           est == SetEstimate(w, r)
       IN SetsFold(sets, i + 1,
            [volume |-> JsAdd(acc.volume, JsMul(w, r)),
             maxWeight |-> IF JsGreater(w, acc.maxWeight) THEN w ELSE acc.maxWeight,
             max1RM |-> IF DoubleGreater(est, acc.max1RM) THEN est ELSE acc.max1RM])

\* the point of one record
StatsPoint(h, sets) ==
  LET acc == SetsFold(sets, 1, [volume |-> 0, maxWeight |-> 0, max1RM |-> DoubleOf(0)])
  IN [date |-> h.date, maxWeight |-> acc.maxWeight, volume |-> acc.volume,
      estOneRepMax |-> acc.max1RM]

\* a variant that also pushes the points of no volume
RECURSIVE StatsFoldKeepAll(_, _, _, _)
StatsFoldKeepAll(hist, selectedExercise, i, acc) ==
  IF i > Len(hist) THEN acc
  ELSE LET h == hist[i]
           k == IF "exercises" \in DOMAIN h
                THEN FindByName(h.exercises, selectedExercise)
                ELSE 0
       IN IF k = 0 THEN StatsFoldKeepAll(hist, selectedExercise, i + 1, acc)
          ELSE StatsFoldKeepAll(hist, selectedExercise, i + 1,
                                Append(acc, StatsPoint(h, h.exercises[k].sets)))

\* history.forEach(h => ...), from record i on: a point is pushed if (volume > 0)
RECURSIVE StatsFold(_, _, _, _)
StatsFold(hist, selectedExercise, i, acc) ==
  IF i > Len(hist) THEN acc
  ELSE LET h == hist[i]
           k == IF "exercises" \in DOMAIN h
                THEN FindByName(h.exercises, selectedExercise)
                ELSE 0
       IN IF k = 0 THEN StatsFold(hist, selectedExercise, i + 1, acc)
          ELSE LET point == StatsPoint(h, h.exercises[k].sets)
               IN StatsFold(hist, selectedExercise, i + 1,
                    IF JsGreater(point.volume, 0) THEN Append(acc, point) ELSE acc)

\* the sorted list with one more point: after the points that are not later
InsertByDate(sorted, point) ==
  LET n == Cardinality({j \in 1..Len(sorted) : ~TimeLess(point.date, sorted[j].date)})
  IN SubSeq(sorted, 1, n) \o <<point>> \o SubSeq(sorted, n + 1, Len(sorted))

\* a variant that leaves the points in the order they were pushed
SortByDateKeepOrder(points, i, sorted) == points

\* stats.sort((a, b) => a.date - b.date): ascending, points of one date in
\* the order they were pushed
RECURSIVE SortByDate(_, _, _)
SortByDate(points, i, sorted) ==
  IF i > Len(points) THEN sorted
  ELSE SortByDate(points, i + 1, InsertByDate(sorted, points[i]))

\* if (!selectedExercise) return []
exerciseStats(hist, selectedExercise) ==
  IF selectedExercise = <<>> THEN <<>>
  ELSE SortByDate(StatsFold(hist, selectedExercise, 1, <<>>), 1, <<>>)

(* Stats.tsx and App.tsx: the activity of the last weeks *)

\* const weeks = 4
weeks == 4

\* a variant that counts a day begun as a whole day
weekIndexCeil(h, t) == (WholeDays(TimeMinus(t, h.date)) + 1) \div 7

\* Math.floor(Math.floor((now - h.date) / Day) / 7)
weekIndex(h, t) == WholeDays(TimeMinus(t, h.date)) \div 7

\* data[weekIndex] of a negative index is undefined, and reading its
\* workouts throws
weeklyActivityThrows(hist, t) ==
  \E i \in 1..Len(hist) : weekIndex(hist[i], t) < 0

\* h.totalVolume as the operand of +=: null counts as 0
VolumeOperand(h) == IF h.totalVolume = Null THEN 0 ELSE h.totalVolume

\* history.forEach(h => ...), from record i on; data[k] is held at k + 1
RECURSIVE WeeksFold(_, _, _, _)
WeeksFold(hist, t, i, data) ==
  IF i > Len(hist) THEN data
  ELSE LET k == weekIndex(hist[i], t)
       IN WeeksFold(hist, t, i + 1,
            IF k < weeks
            THEN [data EXCEPT ![k + 1] =
                    [@ EXCEPT !.workouts = @ + 1,
                              !.volume = JsAdd(@, VolumeOperand(hist[i]))]]
            ELSE data)

\* data.reverse()
Reverse(seq) == [k \in 1..Len(seq) |-> seq[Len(seq) + 1 - k]]

\* the rollup, oldest week first; defined when weeklyActivityThrows is not
weeklyActivity(hist, t) ==
  Reverse(WeeksFold(hist, t, 1,
                    [k \in 1..weeks |-> [week |-> k - 1, workouts |-> 0, volume |-> 0]]))

\* a variant of the dashboard's count that takes in the age of seven days
thisWeekInclusive(hist, t) ==
  Cardinality({i \in 1..Len(hist) : ~TimeLess(Millis(7 * Day), TimeMinus(t, hist[i].date))})

\* history.filter(h => Date.now() - h.date < 7 * 24 * 60 * 60 * 1000).length
thisWeek(hist, t) ==
  Cardinality({i \in 1..Len(hist) : TimeLess(TimeMinus(t, hist[i].date), Millis(7 * Day))})

\* Array.from(exercises).sort(): the names of the set in the order of their
\* UTF-16 code units
RECURSIVE SortNames(_)
SortNames(names) ==
  IF names = {} THEN <<>>
  ELSE LET first == CHOOSE x \in names : \A y \in names \ {x} : StringLess(x, y)
       IN <<first>> \o SortNames(names \ {first})

uniqueExercises(hist) == SortNames(ExerciseNames(hist))

\* if (!selectedExercise && uniqueExercises.length > 0)
\*   setSelectedExercise(uniqueExercises[0])
\* while rendering, as a list of at most one name: the exercise selected when
\* the render is over.  The state is set and the component rendered again as
\* long as the test holds; when uniqueExercises[0] is '' it holds in every
\* render, and React gives up with the error "Too many re-renders"
FirstExercise(hist) ==
  IF Len(uniqueExercises(hist)) = 0 THEN <<(<<>>)>>
  ELSE IF uniqueExercises(hist)[1] = <<>> THEN <<>>
  ELSE <<uniqueExercises(hist)[1]>>

\* the first renders of the Stats view at time t throw: the rollup reads
\* data[-1].workouts, or the selection is set without end
StatsThrows(hist, t) == weeklyActivityThrows(hist, t) \/ FirstExercise(hist) = <<>>

\* the state of the Stats view when it is first on screen, defined when
\* StatsThrows is not: the first name is selected, the rollup is memoised
StatsMounted(hist, t) ==
  [selectedExercise |-> FirstExercise(hist)[1],
   weeklyActivity |-> weeklyActivity(hist, t)]

-----------------------------------------------------------------------------
(* Bounds and inputs *)

\* the names of the exercises of the plans and the records below
BenchPress == Utf16("Bench Press")
OverheadPress == Utf16("Overhead Press")

\* the longest set list a session is driven to
MaxSets == 2
\* the weight and the rep count typed into a stepper
TypedWeight == 2
TypedReps == 3

\* the clock advances in steps of this many milliseconds
ClockStep == 500
\* the latest time followed, in milliseconds
MaxClock == 1000

WeightVals == {TypedWeight}
RepVals == {TypedReps}

\* useState<TrainingPlan | null>(null): null is a record no plan is equal to
NoPlan == [null |-> TRUE]
\* useState<string | null>(null): the state holds null, or a day id, which
\* may be any string
NoDayId == [null |-> TRUE]
DayId(id) == [id |-> id]
NoSession ==
  [id |-> "", planId |-> "", dayId |-> "", startTime |-> Millis(0), exercises |-> <<>>]
NoProps == [plan |-> NoPlan, day |-> [id |-> "", name |-> "", exercises |-> <<>>],
            history |-> [defined |-> FALSE, value |-> <<>>]]
NoOp == [op |-> "none", changed |-> FALSE]
\* PlanManager as it is first rendered: useState(null), useState('list'),
\* useState(false)
ManagerMounted == [selectedPlan |-> NoPlan, view |-> "list", isLoading |-> FALSE]
\* Stats off screen: useState(''), and no rollup memoised
NoStats == [selectedExercise |-> <<>>, weeklyActivity |-> <<>>]

\* crypto.randomUUID() for the id of a record: the n-th id handed out
RecordId(n) == "record-" \o ToString(n)

\* a stored history whose records have the ids of the finishes that made
\* them, the oldest first
Numbered(h) == [i \in 1..Len(h) |-> [h[i] EXCEPT !.id = RecordId(Len(h) - i + 1)]]

\* what crypto.randomUUID() returns when a record is added to the history h:
\* an id no record of h holds; which one it is makes no difference to any
\* code path, and the first that is free is taken
FreshId(h) ==
  LET held(n) == \E i \in 1..Len(h) : h[i].id = RecordId(n)
  IN RecordId(CHOOSE n \in 1..(Len(h) + 1) : ~held(n) /\ \A m \in 1..(n - 1) : held(m))

\* the days of a custom plan: PlanManager's form stores whatever number is
\* typed as the target set count of an exercise, 0 included
LoggedDay ==
  [id |-> "c-day-1", name |-> "Day 1",
   exercises |-> <<[id |-> "c-ex-1", name |-> BenchPress, targetSets |-> MaxSets, targetReps |-> "8-12"],
                   [id |-> "c-ex-2", name |-> OverheadPress, targetSets |-> 1, targetReps |-> "8-12"]>>]

ZeroTargetDay ==
  [id |-> "c-day-2", name |-> "Day 2",
   exercises |-> <<[id |-> "c-ex-3", name |-> BenchPress, targetSets |-> 0, targetReps |-> "8-12"]>>]

\* a day whose exercise has the name the form gives a new exercise, the empty
\* string, which the form does not reject
BlankDay ==
  [id |-> "c-day-3", name |-> "Day 3",
   exercises |-> <<[id |-> "c-ex-4", name |-> <<>>, targetSets |-> 1, targetReps |-> "8-12"]>>]

CustomPlan ==
  [id |-> "custom", name |-> "My Split", description |-> "", createdAt |-> Millis(0),
   isAiGenerated |-> FALSE, days |-> <<LoggedDay, ZeroTargetDay, BlankDay>>]

\* an earlier workout on the same day, as handleFinishWorkout records it: one
\* completed set of Bench Press at the typed weight and reps
PriorRecord ==
  [id |-> RecordId(1), date |-> Millis(0), planName |-> "My Split", dayName |-> "Day 1", durationSeconds |-> 60,
   totalVolume |-> TypedWeight * TypedReps, exercisesCompleted |-> 1,
   exercises |-> <<[name |-> BenchPress,
                    sets |-> <<[weight |-> TypedWeight, reps |-> TypedReps,
                                completed |-> TRUE]>>]>>]

-----------------------------------------------------------------------------
(* localStorage *)

\* JSON.stringify then JSON.parse of a number: NaN is written as null
JsonNumber(v) == IF v = NaN THEN Null ELSE v

\* a logged set through the round trip
JsonSet(s) ==
  [k \in DOMAIN s |-> IF k \in {"weight", "reps"} THEN JsonNumber(s[k]) ELSE s[k]]

\* a detail entry through the round trip
JsonEntry(e) == [e EXCEPT !.sets = [n \in 1..Len(e.sets) |-> JsonSet(e.sets[n])]]

\* JSON.parse(JSON.stringify(record)): every NaN of the record, in its volume
\* and in its detail log, comes back as null; keys holding undefined are
\* dropped, which the encoding of objects already does
JsonRecord(r) ==
  LET summary == [r EXCEPT !.totalVolume = JsonNumber(@)]
  IN IF "exercises" \in DOMAIN r
     THEN [summary EXCEPT !.exercises = [k \in 1..Len(r.exercises) |-> JsonEntry(r.exercises[k])]]
     ELSE summary

JsonHistory(h) == [i \in 1..Len(h) |-> JsonRecord(h[i])]

StoredNothing == [present |-> FALSE, value |-> <<>>]
Stored(v) == [present |-> TRUE, value |-> v]

-----------------------------------------------------------------------------
(* JSON.stringify: the length of the text it writes, in UTF-16 code units *)

\* a[0] + a[1] + ... of a list of numbers
RECURSIVE SumSeq(_)
SumSeq(a) == IF a = <<>> THEN 0 ELSE Head(a) + SumSeq(Tail(a))

\* the decimal digits of a whole number n >= 0
RECURSIVE DecimalDigits(_)
DecimalDigits(n) == IF n < 10 THEN 1 ELSE 1 + DecimalDigits(n \div 10)

\* a number: NaN is written as null, a negative number with its sign
NumberChars(v) ==
  IF v = NaN \/ v = Null THEN Len("null")
  ELSE IF v < 0 THEN 1 + DecimalDigits(0 - v) ELSE DecimalDigits(v)

\* true or false
BooleanChars(b) == IF b THEN Len("true") ELSE Len("false")

\* a time in milliseconds, t.d * Day + t.ms: its digits are counted on the
\* number of hundreds of seconds and on the five digits below them
TimeChars(t) ==
  LET span == IF t.d < 0 THEN TimeMinus(Millis(0), t) ELSE t
      upper == (span.d * (Day \div 100000)) + (span.ms \div 100000)
      lower == span.ms % 100000
  IN (IF t.d < 0 THEN 1 ELSE 0) + (IF upper > 0 THEN DecimalDigits(upper) + 5 ELSE DecimalDigits(lower))

\* a code unit is the first or the second half of a surrogate pair
IsLeadSurrogate(u) == u >= 55296 /\ u <= 56319
IsTrailSurrogate(u) == u >= 56320 /\ u <= 57343

\* what is written for the code unit at position i of a string: the quote and
\* the backslash with a backslash before them; backspace, tab, line feed,
\* form feed and carriage return as two characters; the other control
\* characters and a surrogate without its other half as \uXXXX
EscapedChars(units, i) ==
  LET u == units[i]
  IN IF u \in {34, 92, 8, 9, 10, 12, 13} THEN 2
     ELSE IF u < 32 THEN 6
     ELSE IF IsLeadSurrogate(u)
     THEN (IF i < Len(units) /\ IsTrailSurrogate(units[i + 1]) THEN 1 ELSE 6)
     ELSE IF IsTrailSurrogate(u)
     THEN (IF i > 1 /\ IsLeadSurrogate(units[i - 1]) THEN 1 ELSE 6)
     ELSE 1

\* a string of code units, between its quotes
StringChars(units) == 2 + SumSeq([i \in 1..Len(units) |-> EscapedChars(units, i)])

\* an id, a name of a plan or a day, a description: a string of characters
LabelChars(str) == StringChars(Utf16(str))

\* an array or an object whose elements or members take so many characters
\* each: the brackets or braces, and a comma between two of them
ListChars(parts) == 2 + SumSeq(parts) + (IF Len(parts) > 0 THEN Len(parts) - 1 ELSE 0)

\* the keys of the object o that are written, of those it may have: a key
\* that is missing is left out
Present(o, keys) == SelectSeq(keys, LAMBDA k : k \in DOMAIN o)

\* a member of an object, "key":value
MemberChars(key, value) == Len(key) + 3 + value

\* a logged set { weight, reps, completed }
SetValueChars(set, k) ==
  IF k = "completed" THEN BooleanChars(set.completed) ELSE NumberChars(set[k])

\* an element of a sets array: a hole and undefined are written as null
SetChars(set) ==
  LET present == Present(set, <<"weight", "reps", "completed">>)
  IN IF IsObject(set)
     THEN ListChars([i \in 1..Len(present) |->
                       MemberChars(present[i], SetValueChars(set, present[i]))])
     ELSE Len("null")

\* a WorkoutLogDetail { name, sets }
EntryValueChars(e, k) ==
  IF k = "name" THEN StringChars(e.name)
  ELSE ListChars([i \in 1..Len(e.sets) |-> SetChars(e.sets[i])])

EntryChars(e) ==
  LET present == Present(e, <<"name", "sets">>)
  IN ListChars([i \in 1..Len(present) |->
                  MemberChars(present[i], EntryValueChars(e, present[i]))])

\* a WorkoutHistory record
RecordValueChars(r, k) ==
  IF k \in {"id", "planName", "dayName"} THEN LabelChars(r[k])
  ELSE IF k = "date" THEN TimeChars(r.date)
  ELSE IF k = "exercises"
  THEN ListChars([i \in 1..Len(r.exercises) |-> EntryChars(r.exercises[i])])
  ELSE NumberChars(r[k])

RecordChars(r) ==
  LET present == Present(r, <<"id", "date", "planName", "dayName", "durationSeconds",
                               "totalVolume", "exercisesCompleted", "exercises">>)
  IN ListChars([i \in 1..Len(present) |->
                  MemberChars(present[i], RecordValueChars(r, present[i]))])

\* JSON.stringify(history)
HistoryChars(h) == ListChars([i \in 1..Len(h) |-> RecordChars(h[i])])

\* an Exercise { id, name, targetSets, targetReps, notes }
ExerciseValueChars(x, k) ==
  IF k = "name" THEN StringChars(x.name)
  ELSE IF k = "targetSets" THEN NumberChars(x.targetSets)
  ELSE LabelChars(x[k])

ExerciseChars(x) ==
  LET present == Present(x, <<"id", "name", "targetSets", "targetReps", "notes">>)
  IN ListChars([i \in 1..Len(present) |->
                  MemberChars(present[i], ExerciseValueChars(x, present[i]))])

\* a WorkoutDay { id, name, exercises }
DayValueChars(d, k) ==
  IF k = "exercises"
  THEN ListChars([i \in 1..Len(d.exercises) |-> ExerciseChars(d.exercises[i])])
  ELSE LabelChars(d[k])

DayChars(d) ==
  LET present == Present(d, <<"id", "name", "exercises">>)
  IN ListChars([i \in 1..Len(present) |->
                  MemberChars(present[i], DayValueChars(d, present[i]))])

\* a TrainingPlan
PlanValueChars(p, k) ==
  IF k = "createdAt" THEN TimeChars(p.createdAt)
  ELSE IF k = "isAiGenerated" THEN BooleanChars(p.isAiGenerated)
  ELSE IF k = "days" THEN ListChars([i \in 1..Len(p.days) |-> DayChars(p.days[i])])
  ELSE LabelChars(p[k])

PlanChars(p) ==
  LET present == Present(p, <<"id", "name", "description", "createdAt", "days", "isAiGenerated">>)
  IN ListChars([i \in 1..Len(present) |->
                  MemberChars(present[i], PlanValueChars(p, present[i]))])

\* JSON.stringify(plans)
PlansChars(ps) == ListChars([i \in 1..Len(ps) |-> PlanChars(ps[i])])

-----------------------------------------------------------------------------
(* localStorage: the quota *)

\* the room the origin's quota leaves for the keys and the values of the two
\* keys of the application together, in UTF-16 code units: a room of n, or a
\* room that nothing written here comes near (the store of an origin that
\* holds nothing else)
NoQuota == [limited |-> FALSE, chars |-> 0]
Quota(n) == [limited |-> TRUE, chars |-> n]

\* the name under which a key of the store is written
KeyName(key) == IF key = "plans" THEN "ironpulse_plans" ELSE "ironpulse_history"

\* the key and the text written under it
ItemChars(key, list) ==
  Len(KeyName(key)) + (IF key = "plans" THEN PlansChars(list) ELSE HistoryChars(list))

\* what a key of the store takes of the room: nothing when it is not set
StoredChars(st, key) ==
  LET stored == IF key = "plans" THEN st.plans ELSE st.history
  IN IF stored.present THEN ItemChars(key, stored.value) ELSE 0

\* localStorage.setItem(key, JSON.stringify(list)) throws QuotaExceededError
\* when the item is longer than the one it replaces and does not fit beside
\* what the other key holds
SetItemFails(st, key, list) ==
  LET item == ItemChars(key, list)
  IN /\ st.quota.limited
     /\ item > StoredChars(st, key)
     /\ item + StoredChars(st, IF key = "plans" THEN "history" ELSE "plans") > st.quota.chars

\* the save effect of the history throws: if (history.length > 0)
\* localStorage.setItem('ironpulse_history', ...)
WriteFails(st, h) == Len(h) > 0 /\ SetItemFails(st, "history", h)

\* the save effect of the plans throws: if (plans.length > 0)
\* localStorage.setItem('ironpulse_plans', ...)
PlansWriteFails(st, ps) == Len(ps) > 0 /\ SetItemFails(st, "plans", ps)

\* useEffect(() => { if (history.length > 0) localStorage.setItem(...) }, [history])
SaveHistory(st, h) ==
  IF Len(h) > 0 THEN [st EXCEPT !.history = Stored(JsonHistory(h))] ELSE st

\* useEffect(() => { if (plans.length > 0) localStorage.setItem(...) }, [plans])
SavePlans(st, ps) ==
  IF Len(ps) > 0 THEN [st EXCEPT !.plans = Stored(ps)] ELSE st

-----------------------------------------------------------------------------
(* ActiveWorkout: mounting, the initialisation effect, the mutators *)

appVars == <<view, plans, history, activePlan, activeDayId, storage>>

\* what crypto.randomUUID() returns for the id of a session: the id of the
\* session of a component that is mounted at the start, or another id
MountedId == "session-1"
SessionIds == {MountedId, "session-2"}

\* useState<ActiveSession>({id: crypto.randomUUID(), planId, dayId,
\* startTime: Date.now(), exercises: {}})
MountedSession(plan, day, t, uuid) ==
  [id |-> uuid, planId |-> plan.id, dayId |-> day.id, startTime |-> t, exercises |-> <<>>]

\* the effect that runs once after the first render
InitEffect ==
  /\ phase = "mounted"
  /\ IF InitEffectThrows(props.day, props.history)
     THEN /\ phase' = "crashed"
          /\ UNCHANGED <<session, lastWeights, history>>
     ELSE /\ phase' = "live"
          /\ session' = [session EXCEPT
                           !.exercises = InitialExercises(props.day, props.history.value)]
          /\ lastWeights' = InitialLastWeights(props.day, props.history.value)
          \* the prop is the array the history state holds
          /\ history' = HistoryAfterInit(props.day.exercises, history, 1)
  /\ lastOp' = [op |-> "initialize", changed |-> session' # session]
  /\ UNCHANGED <<view, plans, activePlan, activeDayId, storage, props, elapsed, now, calls,
                 stats, manager, pending>>

\* setSession(next) and the render that follows: an exception while rendering
\* unmounts the application
Commit(next, opname) ==
  /\ IF RenderThrows(next, props.day)
     THEN phase' = "crashed" /\ session' = session
     ELSE phase' = "live" /\ session' = next
  /\ lastOp' = [op |-> opname, changed |-> session' # session]
  /\ UNCHANGED <<appVars, props, lastWeights, elapsed, now>>

\* an exception in the function handed to setSession: the application
\* unmounts
Throw(opname) ==
  /\ phase' = "crashed"
  /\ lastOp' = [op |-> opname, changed |-> FALSE]
  /\ UNCHANGED <<appVars, props, session, lastWeights, elapsed, now>>

UpdateSet(exerciseId, setIndex, field, value) ==
  /\ phase = "live"
  /\ setIndex < MaxSets
  /\ IF SpreadThrows(session, exerciseId)
     THEN Throw("updateSet")
     ELSE Commit(updateSet(session, exerciseId, setIndex, field, value), "updateSet")

ToggleComplete(exerciseId, setIndex) ==
  /\ phase = "live"
  /\ IF toggleCompleteThrows(session, exerciseId, setIndex)
     THEN Throw("toggleComplete")
     ELSE Commit(toggleComplete(session, exerciseId, setIndex), "toggleComplete")

AddSet(exerciseId) ==
  /\ phase = "live"
  /\ ArrayAt(session.exercises, exerciseId) =>
       Len(SetsOf(session.exercises, exerciseId)) < MaxSets
  /\ IF SpreadThrows(session, exerciseId)
     THEN Throw("addSet")
     ELSE Commit(addSet(session, exerciseId), "addSet")

RemoveSet(exerciseId) ==
  /\ phase = "live"
  /\ IF removeSetThrows(session, exerciseId)
     THEN Throw("removeSet")
     ELSE Commit(removeSet(session, exerciseId), "removeSet")

-----------------------------------------------------------------------------
(* App: handleFinishWorkout *)

\* !activeDayId: null, or the empty string
NoDay(dayId) == dayId = NoDayId \/ dayId = DayId("")

\* activePlan.days.find(d => d.id === activeDayId), as a list of at most one day
DayOf(plan, dayId) ==
  IF plan # NoPlan /\ \E i \in 1..Len(plan.days) : plan.days[i].id = dayId
  THEN <<plan.days[CHOOSE i \in 1..Len(plan.days) :
                     /\ plan.days[i].id = dayId
                     /\ \A j \in 1..(i - 1) : plan.days[j].id # dayId]>>
  ELSE <<>>

\* a variant that adds the record at the end
AppendLast(record, prev) == Append(prev, record)

\* setHistory(prev => [record, ...prev])
Prepend(record, prev) == <<record>> \o prev

\* what Date.now() may return when it is read again within one handler: the
\* same time, or the next time the clock shows
LaterReads(t) ==
  IF TimeLess(Millis(MaxClock), TimePlus(t, ClockStep)) THEN {t} ELSE {t, TimePlus(t, ClockStep)}

\* the Finish button: onFinish(session), the render of the Stats view that
\* follows, and the save effect after it; crypto.randomUUID() returns an id
\* no record holds
FinishWorkout ==
  /\ phase = "live"
  /\ IF activePlan = NoPlan \/ NoDay(activeDayId)
        \/ DayOf(activePlan, activeDayId.id) = <<>> \/ FinishThrows(session)
     THEN /\ lastOp' = [op |-> "finishRejected", changed |-> FALSE]
          /\ UNCHANGED <<appVars, phase, stats, props, session, lastWeights, elapsed, now>>
     ELSE \* Date.now() of the record's date is the time now, Date.now() of its
          \* duration is read later, new Date() of the rollup when Stats is
          \* rendered
          \E later \in LaterReads(now) : \E rendered \in LaterReads(later) :
          LET day == DayOf(activePlan, activeDayId.id)[1]
              record == FinishRecord(FreshId(history), session, activePlan, day, now, later)
          IN /\ history' = Prepend(record, history)
             /\ activePlan' = NoPlan
             /\ activeDayId' = NoDayId
             /\ view' = "STATS"
             /\ now' = rendered
             \* ActiveWorkout unmounts, and its state goes with it
             /\ props' = NoProps
             /\ session' = NoSession
             /\ lastWeights' = <<>>
             /\ elapsed' = 0
             /\ IF StatsThrows(history', now') \/ WriteFails(storage, history')
                THEN \* Stats throws while rendering, or the save effect throws:
                     \* the application unmounts and nothing is written
                     /\ storage' = storage
                     /\ phase' = "crashed"
                     /\ lastOp' = [op |-> "finishUnsaved", changed |-> FALSE]
                     /\ stats' = NoStats
                ELSE /\ storage' = SaveHistory(storage, history')
                     /\ lastOp' = [op |-> "finish", changed |-> FALSE]
                     /\ stats' = StatsMounted(history', now')
                     /\ phase' = "idle"
             /\ UNCHANGED plans
  /\ UNCHANGED <<calls, manager, pending>>

-----------------------------------------------------------------------------
(* Spec: a workout logged through the controls ActiveWorkout renders.  The     *)
(* component is mounted with the props its interface declares (plan, day,      *)
(* history), onFinish is App's handleFinishWorkout, and every call comes from  *)
(* a rendered control: the exercise ids of the day, the indexes of the rows    *)
(* shown, the weight and reps steppers.                                        *)

SessionDays == {LoggedDay, ZeroTargetDay, BlankDay}
PropHistories == {<<PriorRecord>>}

DayIds(day) == {day.exercises[i].id : i \in 1..Len(day.exercises)}

\* the rows sets.map renders for an exercise
Rows(sess, exerciseId) ==
  {i \in 0..(Len(SetsOf(sess.exercises, exerciseId)) - 1) :
     SetsOf(sess.exercises, exerciseId)[i + 1] # Hole}

\* ActiveWorkout has just been mounted at time t on a day of a plan with the
\* history h as its history prop, and has rendered once; its effects have not
\* run yet
MountedAt(plan, day, h, t) ==
  /\ view = "ACTIVE_WORKOUT"
  /\ plans = <<plan>>
  /\ history = h
  /\ activePlan = plan
  /\ activeDayId = DayId(day.id)
  /\ storage = SaveHistory([plans |-> Stored(<<plan>>), history |-> StoredNothing,
                             quota |-> NoQuota], h)
  /\ phase = "mounted"
  /\ props = [plan |-> plan, day |-> day, history |-> [defined |-> TRUE, value |-> h]]
  /\ now = t
  /\ session = MountedSession(plan, day, t, MountedId)
  /\ lastWeights = <<>>
  /\ elapsed = 0
  /\ lastOp = NoOp
  /\ calls = 0
  /\ stats = NoStats
  /\ manager = ManagerMounted
  /\ pending = <<>>

Mounted(plan, day, h) == MountedAt(plan, day, h, Millis(0))

Init ==
  \E day \in SessionDays, h \in PropHistories : Mounted(CustomPlan, day, h)

\* a stepper of a rendered row: onChange for the weight or the reps of the row
StepperChange ==
  /\ \E e \in DayIds(props.day) : \E i \in Rows(session, e) :
       \/ \E v \in WeightVals : UpdateSet(e, i, "weight", v)
       \/ \E v \in RepVals : UpdateSet(e, i, "reps", v)
  /\ UNCHANGED <<calls, stats, manager, pending>>

\* the check button of a rendered row
CheckClick ==
  /\ \E e \in DayIds(props.day) : \E i \in Rows(session, e) : ToggleComplete(e, i)
  /\ UNCHANGED <<calls, stats, manager, pending>>

\* the plus button of an exercise
PlusClick ==
  /\ \E e \in DayIds(props.day) : AddSet(e)
  /\ UNCHANGED <<calls, stats, manager, pending>>

\* the minus button of an exercise
MinusClick ==
  /\ \E e \in DayIds(props.day) : RemoveSet(e)
  /\ UNCHANGED <<calls, stats, manager, pending>>

Next ==
  \/ InitEffect
  \/ StepperChange
  \/ CheckClick
  \/ PlusClick
  \/ MinusClick
  \/ FinishWorkout

Spec == Init /\ [][Next]_vars

-----------------------------------------------------------------------------
(* SpecCalls: the mutators called with arbitrary arguments, as the claims     *)
(* about rejected calls require: an exercise id the day does not have, an     *)
(* index before or past the list, any field of a SetLog.                      *)

GhostId == "no-such-exercise"
\* an id the day does not have either, one that is an array-index key
IndexId == "1"

\* ids the day does not have either, which name properties every object
\* inherits: a function, and the prototype
FunctionId == "constructor"
ProtoId == "__proto__"

CallIds(day) == DayIds(day) \cup {GhostId, IndexId, FunctionId, ProtoId}
CallIndexes == (0 - 1)..MaxSets

\* the calls a run makes
MaxCalls == 2

CountCall == calls < MaxCalls /\ calls' = calls + 1 /\ UNCHANGED <<stats, manager, pending>>

CallUpdateSet ==
  /\ CountCall
  /\ \E e \in CallIds(props.day) : \E i \in CallIndexes :
       \/ \E v \in WeightVals : UpdateSet(e, i, "weight", v)
       \/ \E v \in RepVals : UpdateSet(e, i, "reps", v)
       \/ \E v \in BOOLEAN : UpdateSet(e, i, "completed", v)

CallToggleComplete ==
  /\ CountCall
  /\ \E e \in CallIds(props.day) : \E i \in CallIndexes : ToggleComplete(e, i)

CallAddSet ==
  /\ CountCall
  /\ \E e \in CallIds(props.day) : AddSet(e)

CallRemoveSet ==
  /\ CountCall
  /\ \E e \in CallIds(props.day) : RemoveSet(e)

NextCalls ==
  \/ InitEffect
  \/ CallUpdateSet
  \/ CallToggleComplete
  \/ CallAddSet
  \/ CallRemoveSet
  \/ FinishWorkout

SpecCalls == Init /\ [][NextCalls]_vars

-----------------------------------------------------------------------------
(* SpecTimer: a workout under the clock.  Date.now() advances on its own, the *)
(* interval timer of ActiveWorkout fires or is delayed independently of it.   *)

\* the most timer ticks followed
MaxTicks == 3

\* the times at which the workout is started
StartTimes == {Millis(0), Millis(ClockStep)}

InitTimer == \E t \in StartTimes : MountedAt(CustomPlan, LoggedDay, <<PriorRecord>>, t)

\* setInterval(() => setElapsed(e => e + 1), 1000)
Tick ==
  /\ phase = "live"
  /\ elapsed < MaxTicks
  /\ elapsed' = elapsed + 1
  /\ lastOp' = [op |-> "tick", changed |-> FALSE]
  /\ UNCHANGED <<appVars, phase, props, session, lastWeights, now, calls, stats, manager,
                 pending>>

\* time passes
AdvanceClock ==
  /\ ~TimeLess(Millis(MaxClock), TimePlus(now, ClockStep))
  /\ now' = TimePlus(now, ClockStep)
  /\ UNCHANGED <<appVars, phase, props, session, lastWeights, elapsed, lastOp, calls, stats,
                 manager, pending>>

NextTimer ==
  \/ InitEffect
  \/ Tick
  \/ AdvanceClock
  \/ CheckClick
  \/ FinishWorkout

SpecTimer == InitTimer /\ [][NextTimer]_vars

-----------------------------------------------------------------------------
(* SpecInit: the initialisation effect on the histories a store can hold.     *)
(* A stored record may lack the exercises field (types.ts: exercises?), an    *)
(* entry may hold no set, a set may be left uncompleted.                      *)

\* the longest history
MaxHist == 2
\* the largest target set count typed into the plan form; the smallest is -1
MaxTarget == 2

InitDay(t) ==
  [id |-> "i-day", name |-> "Day 1",
   exercises |-> <<[id |-> "i-ex-1", name |-> BenchPress, targetSets |-> t, targetReps |-> "8-12"],
                   [id |-> "i-ex-2", name |-> OverheadPress, targetSets |-> 1, targetReps |-> "8-12"]>>]

InitPlan(t) ==
  [id |-> "i-plan", name |-> "My Split", description |-> "", createdAt |-> Millis(0),
   isAiGenerated |-> FALSE, days |-> <<InitDay(t)>>]

LoggedSets == [weight : {1, 2}, reps : {TypedReps}, completed : BOOLEAN]

LoggedLists ==
  {<<>>} \cup {<<a>> : a \in LoggedSets} \cup {<<a, b>> : a, b \in LoggedSets}

OneSetLists == {<<a>> : a \in LoggedSets}

Bench(l) == [name |-> BenchPress, sets |-> l]

\* an Overhead Press entry none of whose sets is completed
Overhead ==
  [name |-> OverheadPress,
   sets |-> <<[weight |-> 2, reps |-> TypedReps, completed |-> FALSE],
              [weight |-> 1, reps |-> TypedReps, completed |-> FALSE]>>]

\* the detail logs of a stored record: one Bench Press entry, an entry of
\* another exercise before it, or two Bench Press entries
DetailLogs ==
  {<<>>}
    \cup {<<Bench(l)>> : l \in LoggedLists}
    \cup {<<Overhead, Bench(l)>> : l \in LoggedLists}
    \cup {<<Bench(<<>>), Bench(l)>> : l \in OneSetLists}
    \cup {<<Bench(<<[weight |-> 1, reps |-> TypedReps, completed |-> TRUE]>>), Bench(l)>> :
            l \in OneSetLists}

RecordOf(log) ==
  [id |-> RecordId(1), date |-> Millis(0), planName |-> "My Split", dayName |-> "Day 1", durationSeconds |-> 60,
   totalVolume |-> 0, exercisesCompleted |-> Len(log), exercises |-> log]

\* a record stored without its detail log
SummaryRecord ==
  [id |-> RecordId(1), date |-> Millis(0), planName |-> "My Split", dayName |-> "Day 1", durationSeconds |-> 60,
   totalVolume |-> 0, exercisesCompleted |-> 0]

StoredRecords == {SummaryRecord} \cup {RecordOf(log) : log \in DetailLogs}

Histories(most) == {Numbered(h) : h \in UNION {[1..n -> StoredRecords] : n \in 0..most}}

\* every history with the default target, and every target with the histories
\* of at most one record
InitCarry ==
  \/ \E h \in Histories(MaxHist) : Mounted(InitPlan(1), InitDay(1), h)
  \/ \E t \in (0 - 1)..MaxTarget : \E h \in Histories(1) :
       Mounted(InitPlan(t), InitDay(t), h)

NextInit == InitEffect

SpecInit == InitCarry /\ [][NextInit]_vars

-----------------------------------------------------------------------------
(* SpecApp: the application as App.tsx wires it.  App loads plans and history *)
(* from localStorage, PlanManager starts a workout or edits the plan list,    *)
(* and App renders ActiveWorkout with the props plan, day, onFinish and       *)
(* onCancel.                                                                  *)

\* the most records the history may hold when a workout is started
MaxRecords == 2

\* the days of the preset plan
PushDay ==
  [id |-> "ppl-push", name |-> "Push (Chest/Shoulders/Triceps)",
   exercises |-> <<[id |-> "ex-1", name |-> BenchPress, targetSets |-> 3, targetReps |-> "8-10"],
                   [id |-> "ex-2", name |-> OverheadPress, targetSets |-> 3, targetReps |-> "8-12"],
                   [id |-> "ex-3", name |-> Utf16("Incline Dumbbell Press"), targetSets |-> 3, targetReps |-> "10-12"],
                   [id |-> "ex-4", name |-> Utf16("Lateral Raises"), targetSets |-> 4, targetReps |-> "12-15"],
                   [id |-> "ex-5", name |-> Utf16("Tricep Pushdowns"), targetSets |-> 3, targetReps |-> "12-15"]>>]

PullDay ==
  [id |-> "ppl-pull", name |-> "Pull (Back/Biceps)",
   exercises |-> <<[id |-> "ex-6", name |-> Utf16("Deadlift"), targetSets |-> 3, targetReps |-> "5"],
                   [id |-> "ex-7", name |-> Utf16("Pull Ups"), targetSets |-> 3, targetReps |-> "AMRAP"],
                   [id |-> "ex-8", name |-> Utf16("Barbell Rows"), targetSets |-> 3, targetReps |-> "8-10"],
                   [id |-> "ex-9", name |-> Utf16("Face Pulls"), targetSets |-> 4, targetReps |-> "15-20"],
                   [id |-> "ex-10", name |-> Utf16("Bicep Curls"), targetSets |-> 4, targetReps |-> "10-12"]>>]

LegsDay ==
  [id |-> "ppl-legs", name |-> "Legs",
   exercises |-> <<[id |-> "ex-11", name |-> Utf16("Squat"), targetSets |-> 3, targetReps |-> "5-8"],
                   [id |-> "ex-12", name |-> Utf16("Romanian Deadlift"), targetSets |-> 3, targetReps |-> "8-10"],
                   [id |-> "ex-13", name |-> Utf16("Leg Press"), targetSets |-> 3, targetReps |-> "10-12"],
                   [id |-> "ex-14", name |-> Utf16("Leg Extensions"), targetSets |-> 3, targetReps |-> "12-15"],
                   [id |-> "ex-15", name |-> Utf16("Calf Raises"), targetSets |-> 4, targetReps |-> "15-20"]>>]

\* createdAt: Date.now() is read when the page is loaded (t)
DEFAULT_PLANS(t) ==
  <<[id |-> "preset-ppl", name |-> "Push Pull Legs",
     description |-> "Classic 3-day split focusing on movement patterns.",
     createdAt |-> t, days |-> <<PushDay, PullDay, LegsDay>>]>>

\* a day as addDayToCustomPlan creates it: no exercise yet
RestDay == [id |-> "n-day-1", name |-> "Day 1", exercises |-> <<>>]

\* the plan handleSaveCustomPlan hands to onAddPlan at time t: the form's
\* name, description and days, and id: crypto.randomUUID(), createdAt:
\* Date.now(), isAiGenerated: false
NewPlan(t) ==
  [id |-> "n-plan", name |-> "Deload", description |-> "", createdAt |-> t,
   isAiGenerated |-> FALSE, days |-> <<RestDay>>]

\* a plan generateWorkoutPlan resolves with at time t
GeneratedPlan(t) ==
  [id |-> "g-plan", name |-> "AI Split", description |-> "Three pushes a week.",
   createdAt |-> t, isAiGenerated |-> TRUE,
   days |-> <<[id |-> "g-day-1", name |-> "Push A",
               exercises |-> <<[id |-> "g-ex-1", name |-> Utf16("Arnold Press"),
                                targetSets |-> 3, targetReps |-> "8-12",
                                notes |-> ""]>>]>>]

\* the most requests awaited at a time
MaxPending == 1

\* a stored plan whose days have the ids 'null' and '', and no exercise
StoredPlan ==
  [id |-> "s-plan", name |-> "Imported", description |-> "", createdAt |-> Millis(0),
   isAiGenerated |-> FALSE,
   days |-> <<[id |-> "null", name |-> "Day A", exercises |-> <<>>],
              [id |-> "", name |-> "Day B", exercises |-> <<>>]>>]

\* a stored workout of a day whose exercise has the empty name
BlankRecord ==
  [id |-> RecordId(1), date |-> Millis(0), planName |-> "My Split", dayName |-> "Day 3", durationSeconds |-> 60,
   totalVolume |-> TypedWeight * TypedReps, exercisesCompleted |-> 1,
   exercises |-> <<[name |-> <<>>,
                    sets |-> <<[weight |-> TypedWeight, reps |-> TypedReps,
                                completed |-> TRUE]>>]>>]

\* what localStorage holds when the page is opened
AppStores ==
  {[plans |-> StoredNothing, history |-> StoredNothing, quota |-> NoQuota],
   [plans |-> StoredNothing, history |-> Stored(<<PriorRecord>>), quota |-> NoQuota],
   [plans |-> Stored(<<StoredPlan>>), history |-> Stored(<<BlankRecord>>), quota |-> NoQuota]}

\* the load effect followed by the two save effects
LoadedPlans(st, t) == IF st.plans.present THEN st.plans.value ELSE DEFAULT_PLANS(t)

LoadedHistory(st) == IF st.history.present THEN st.history.value ELSE <<>>

\* the load effect throws in localStorage.setItem('ironpulse_plans',
\* JSON.stringify(DEFAULT_PLANS)), before it reads the stored history
SeedThrows(st, t) == ~st.plans.present /\ SetItemFails(st, "plans", DEFAULT_PLANS(t))

\* the store after the load effect
Seeded(st, t) ==
  IF st.plans.present \/ SeedThrows(st, t) THEN st
  ELSE [st EXCEPT !.plans = Stored(DEFAULT_PLANS(t))]

\* the store after the save effect of the plans, which leaves it as it is
\* when it throws
PlansSaved(st, ps) == IF PlansWriteFails(st, ps) THEN st ELSE SavePlans(st, ps)

\* the store after the save effect of the history, which leaves it as it is
\* when it throws
HistorySaved(st, h) == IF WriteFails(st, h) THEN st ELSE SaveHistory(st, h)

\* an effect of the load throws, which unmounts the application: the load
\* effect, or one of the save effects that run on what has been loaded
LoadThrows(st, t) ==
  \/ SeedThrows(st, t)
  \/ PlansWriteFails(Seeded(st, t), LoadedPlans(st, t))
  \/ WriteFails(PlansSaved(Seeded(st, t), LoadedPlans(st, t)), LoadedHistory(st))

LoadedStorage(st, t) ==
  IF SeedThrows(st, t) THEN st
  ELSE HistorySaved(PlansSaved(Seeded(st, t), LoadedPlans(st, t)), LoadedHistory(st))

\* what App holds after the load: nothing when the load effect has thrown
OpenedPlans(st, t) == IF SeedThrows(st, t) THEN <<>> ELSE LoadedPlans(st, t)

OpenedHistory(st, t) == IF SeedThrows(st, t) THEN <<>> ELSE LoadedHistory(st)

OpenedPhase(st, t) == IF LoadThrows(st, t) THEN "crashed" ELSE "idle"

\* App has been mounted on the store st and its effects have run
Opened(st, t) ==
  /\ view' = "DASHBOARD"
  /\ plans' = OpenedPlans(st, t)
  /\ history' = OpenedHistory(st, t)
  /\ storage' = LoadedStorage(st, t)
  /\ activePlan' = NoPlan
  /\ activeDayId' = NoDayId
  /\ phase' = OpenedPhase(st, t)
  /\ props' = NoProps
  /\ session' = NoSession
  /\ lastWeights' = <<>>
  /\ elapsed' = 0

\* the page has just been opened on the store st
OpenedAt(st, t) ==
  /\ view = "DASHBOARD"
  /\ plans = OpenedPlans(st, t)
  /\ history = OpenedHistory(st, t)
  /\ storage = LoadedStorage(st, t)
  /\ activePlan = NoPlan
  /\ activeDayId = NoDayId
  /\ phase = OpenedPhase(st, t)
  /\ props = NoProps
  /\ session = NoSession
  /\ lastWeights = <<>>
  /\ elapsed = 0
  /\ now = t
  /\ lastOp = NoOp
  /\ calls = 0
  /\ stats = NoStats
  /\ manager = ManagerMounted
  /\ pending = <<>>

OpenedOn(st) == OpenedAt(st, Millis(0))

InitApp == \E st \in AppStores : OpenedOn(st)

\* a variant that never lets the workout take over the screen
WorkoutNeverOnScreen == FALSE

\* App renders ActiveWorkout in place of the whole layout, navigation included,
\* when view is ACTIVE_WORKOUT and the active plan holds the active day
WorkoutOnScreen ==
  /\ view = "ACTIVE_WORKOUT"
  /\ activePlan # NoPlan
  /\ ~NoDay(activeDayId)
  /\ DayOf(activePlan, activeDayId.id) # <<>>

\* the layout with the navigation and the current view is on screen
LayoutOnScreen == phase # "crashed" /\ ~WorkoutOnScreen

\* the requests whose PlanManager has been unmounted: what they resolve into
\* sets the state of a component that is gone
Orphaned(requests) == [k \in 1..Len(requests) |-> [requests[k] EXCEPT !.alive = FALSE]]

\* NavItem, and the two cards of the dashboard that lead to Stats:
\* setView(viewName)
Navigate ==
  /\ LayoutOnScreen
  /\ \E v \in {"DASHBOARD", "PLANS", "STATS"} : view' = v
  /\ lastOp' = [op |-> "navigate", changed |-> FALSE]
  /\ IF view' = view
     THEN UNCHANGED <<stats, phase, manager, pending>>
     ELSE /\ manager' = ManagerMounted
          /\ pending' = Orphaned(pending)
          /\ IF view' # "STATS"
             THEN stats' = NoStats /\ UNCHANGED phase
             ELSE IF StatsThrows(history, now)
             THEN \* the Stats view throws while rendering: the application unmounts
                  stats' = NoStats /\ phase' = "crashed"
             ELSE stats' = StatsMounted(history, now) /\ UNCHANGED phase
  /\ UNCHANGED <<plans, history, activePlan, activeDayId, storage, props, session,
                 lastWeights, elapsed, now, calls>>

\* PlanManager is on screen
ManagerOnScreen == LayoutOnScreen /\ view = "PLANS"

\* PlanManager shows the list of plans
ListOnScreen ==
  ManagerOnScreen /\ manager.selectedPlan = NoPlan /\ manager.view = "list"

\* a plan card of the list: setSelectedPlan(plan)
SelectPlan ==
  /\ ListOnScreen
  /\ \E p \in 1..Len(plans) : manager' = [manager EXCEPT !.selectedPlan = plans[p]]
  /\ lastOp' = [op |-> "selectPlan", changed |-> FALSE]
  /\ UNCHANGED <<appVars, phase, props, session, lastWeights, elapsed, now, calls, stats,
                 pending>>

\* the back button of the detail view: setSelectedPlan(null)
BackToList ==
  /\ ManagerOnScreen
  /\ manager.selectedPlan # NoPlan
  /\ manager' = [manager EXCEPT !.selectedPlan = NoPlan]
  /\ lastOp' = [op |-> "backToList", changed |-> FALSE]
  /\ UNCHANGED <<appVars, phase, props, session, lastWeights, elapsed, now, calls, stats,
                 pending>>

\* New Custom Plan and New AI Plan of the list, Cancel of either form: setView
ShowForm ==
  /\ ManagerOnScreen
  /\ manager.selectedPlan = NoPlan
  /\ \E v \in {"list", "ai", "custom"} :
       /\ v # manager.view
       /\ manager.view = "list" \/ v = "list"
       /\ manager' = [manager EXCEPT !.view = v]
  /\ lastOp' = [op |-> "showForm", changed |-> FALSE]
  /\ UNCHANGED <<appVars, phase, props, session, lastWeights, elapsed, now, calls, stats,
                 pending>>

\* the plans a Start button is on screen for: the first plan on the
\* dashboard (Quick Start), the selected plan in PlanManager's detail view
StartablePlans ==
  IF view = "DASHBOARD" THEN {plans[p] : p \in {q \in 1..Len(plans) : q = 1}}
  ELSE IF view = "PLANS" /\ manager.selectedPlan # NoPlan THEN {manager.selectedPlan}
  ELSE {}

\* handleStartWorkout, the render of <ActiveWorkout plan day onFinish onCancel />
\* that follows, to which no history prop is passed, and the effects of the
\* new component; an exception in the render or in an effect unmounts the
\* application
StartWorkout ==
  /\ LayoutOnScreen
  /\ Len(history) < MaxRecords
  /\ \E plan \in StartablePlans : \E d \in 1..Len(plan.days) : \E uuid \in SessionIds :
       LET dayId == plan.days[d].id
           historyProp == [defined |-> FALSE, value |-> <<>>]
       IN /\ activePlan' = plan
          /\ activeDayId' = DayId(dayId)
          /\ IF NoDay(DayId(dayId))
             THEN \* activeDayId is falsy: the layout stays on screen, with no
                  \* view to show
                  /\ phase' = "idle"
                  /\ props' = NoProps
                  /\ session' = NoSession
                  /\ lastWeights' = <<>>
             ELSE LET day == DayOf(plan, dayId)[1]
                      mounted == MountedSession(plan, day, now, uuid)
                  IN /\ props' = [plan |-> plan, day |-> day, history |-> historyProp]
                     /\ IF RenderThrows(mounted, day) \/ InitEffectThrows(day, historyProp)
                        THEN /\ phase' = "crashed"
                             /\ session' = mounted
                             /\ lastWeights' = <<>>
                        ELSE /\ phase' = "live"
                             /\ session' = [mounted EXCEPT
                                              !.exercises = InitialExercises(day, historyProp.value)]
                             /\ lastWeights' = InitialLastWeights(day, historyProp.value)
  /\ view' = "ACTIVE_WORKOUT"
  /\ elapsed' = 0
  /\ manager' = ManagerMounted
  /\ pending' = Orphaned(pending)
  /\ lastOp' = [op |-> "start", changed |-> FALSE]
  /\ UNCHANGED <<plans, history, storage, now, calls, stats>>

\* handleCancelWorkout
\* a variant of the confirmed cancel that keeps the plan and the day active
AfterCancelStillActive ==
  [activePlan |-> activePlan, activeDayId |-> activeDayId, view |-> "DASHBOARD"]

\* setActivePlan(null); setActiveDayId(null); setView(AppView.DASHBOARD)
AfterCancel == [activePlan |-> NoPlan, activeDayId |-> NoDayId, view |-> "DASHBOARD"]

CancelWorkout ==
  /\ phase = "live"
  /\ \E confirm \in BOOLEAN :
       IF confirm
       THEN /\ activePlan' = AfterCancel.activePlan
            /\ activeDayId' = AfterCancel.activeDayId
            /\ view' = AfterCancel.view
            /\ phase' = "idle"
            /\ lastOp' = [op |-> "cancel", changed |-> FALSE, after |-> lastOp.op]
            \* ActiveWorkout unmounts, and its state goes with it
            /\ props' = NoProps
            /\ session' = NoSession
            /\ lastWeights' = <<>>
            /\ elapsed' = 0
       ELSE /\ lastOp' = [op |-> "cancelDeclined", changed |-> FALSE]
            /\ UNCHANGED <<activePlan, activeDayId, view, phase, props, session,
                           lastWeights, elapsed>>
  /\ UNCHANGED <<plans, history, storage, now, calls, stats, manager, pending>>

PlanIds(ps) == {ps[p].id : p \in 1..Len(ps)}

\* handleSaveCustomPlan: onAddPlan(newPlan), which is setPlans([p, ...plans])
\* of the render on screen, and setView('list')
AddPlan ==
  /\ ManagerOnScreen
  /\ manager.selectedPlan = NoPlan
  /\ manager.view = "custom"
  /\ NewPlan(now).id \notin PlanIds(plans)
  /\ plans' = <<NewPlan(now)>> \o plans
  \* the save effect of the plans, which unmounts the application when it throws
  /\ storage' = PlansSaved(storage, plans')
  /\ phase' = IF PlansWriteFails(storage, plans') THEN "crashed" ELSE phase
  /\ manager' = [manager EXCEPT !.view = "list"]
  /\ lastOp' = [op |-> "addPlan", changed |-> FALSE]
  /\ UNCHANGED <<view, history, activePlan, activeDayId, props, session, lastWeights,
                 elapsed, now, calls, stats, pending>>

\* handleGenerate up to its await: setIsLoading(true), and the request that
\* is awaited, with the plan list of the render in which Generate was clicked
Generate ==
  /\ ManagerOnScreen
  /\ manager.selectedPlan = NoPlan
  /\ manager.view = "ai"
  /\ ~manager.isLoading
  /\ Len(pending) < MaxPending
  /\ GeneratedPlan(now).id \notin PlanIds(plans)
  /\ manager' = [manager EXCEPT !.isLoading = TRUE]
  /\ pending' = Append(pending, [plans |-> plans, alive |-> TRUE])
  /\ lastOp' = [op |-> "generate", changed |-> FALSE]
  /\ UNCHANGED <<appVars, phase, props, session, lastWeights, elapsed, now, calls, stats>>

\* the list without its k-th element
WithoutAt(seq, k) == SubSeq(seq, 1, k - 1) \o SubSeq(seq, k + 1, Len(seq))

\* handleGenerate after its await, whatever is on screen by then: with a plan,
\* onAddPlan(plan), which is setPlans([p, ...plans]) of the render in which
\* Generate was clicked, the save effect, and setView('list'); with null, no
\* plan; in either case setIsLoading(false)
Resolve ==
  /\ phase # "crashed"
  /\ \E k \in 1..Len(pending) : \E plan \in {GeneratedPlan(now), NoPlan} :
       /\ pending' = WithoutAt(pending, k)
       /\ IF plan # NoPlan
          THEN /\ plans' = <<plan>> \o pending[k].plans
               /\ storage' = PlansSaved(storage, plans')
               /\ phase' = IF PlansWriteFails(storage, plans') THEN "crashed" ELSE phase
               /\ manager' = IF pending[k].alive
                             THEN [manager EXCEPT !.view = "list", !.isLoading = FALSE]
                             ELSE manager
               /\ lastOp' = [op |-> "generated", changed |-> FALSE]
          ELSE /\ manager' = IF pending[k].alive
                             THEN [manager EXCEPT !.isLoading = FALSE]
                             ELSE manager
               /\ lastOp' = [op |-> "generateFailed", changed |-> FALSE]
               /\ UNCHANGED <<plans, storage, phase>>
  /\ UNCHANGED <<view, history, activePlan, activeDayId, props, session, lastWeights,
                 elapsed, now, calls, stats>>

\* prev.filter(p => p.id !== id)
WithoutPlan(ps, id) == SelectSeq(ps, LAMBDA p : p.id # id)

\* the trash button of a plan card of the list: deletePlan
DeletePlan ==
  /\ ListOnScreen
  /\ \E p \in 1..Len(plans) : \E confirm \in BOOLEAN :
       IF confirm
       THEN /\ plans' = WithoutPlan(plans, plans[p].id)
            /\ storage' = PlansSaved(storage, plans')
            /\ phase' = IF PlansWriteFails(storage, plans') THEN "crashed" ELSE phase
            /\ lastOp' = [op |-> "deletePlan", changed |-> FALSE]
       ELSE /\ lastOp' = [op |-> "deleteDeclined", changed |-> FALSE]
            /\ UNCHANGED <<plans, storage, phase>>
  /\ UNCHANGED <<view, history, activePlan, activeDayId, props, session, lastWeights,
                 elapsed, now, calls, stats, manager, pending>>

\* the page is loaded again, at the time the clock shows: App is mounted on
\* what localStorage holds, and the requests of the page before are gone
Reload ==
  /\ lastOp.op # "reload"
  /\ Opened(storage, now)
  /\ lastOp' = [op |-> "reload", changed |-> FALSE]
  /\ stats' = NoStats
  /\ manager' = ManagerMounted
  /\ pending' = <<>>
  /\ UNCHANGED <<now, calls>>

NextApp ==
  \/ Navigate
  \/ SelectPlan
  \/ BackToList
  \/ ShowForm
  \/ StartWorkout
  \/ FinishWorkout
  \/ CancelWorkout
  \/ AddPlan
  \/ Generate
  \/ Resolve
  \/ DeletePlan
  \/ Reload
  \/ AdvanceClock

SpecApp == InitApp /\ [][NextApp]_vars

-----------------------------------------------------------------------------
(* SpecStats: the Stats view on the histories a store can hold.               *)

StatsSets == [weight : {0, 2}, reps : {TypedReps}, completed : BOOLEAN]

StatsLists ==
  {<<>>} \cup {<<a>> : a \in StatsSets} \cup {<<a, b>> : a, b \in StatsSets}

\* a detail entry of any name
Named(name, l) == [name |-> name, sets |-> l]

\* a completed set of some volume
DoneSet == [weight |-> 2, reps |-> TypedReps, completed |-> TRUE]

\* a name outside ASCII, a name that begins with a backtick and a name that
\* begins with a tab: Bench Press sorts after the last and before the others
OddLog ==
  <<Named(<<233>>, <<DoneSet>>), Named(<<96, 66>>, <<DoneSet>>), Named(<<9, 66>>, <<DoneSet>>)>>

\* the detail logs of a stored record: one Bench Press entry, an entry of
\* another exercise before it, or a second Bench Press entry after it; an
\* entry of the empty name, alone or after a Bench Press entry; entries of
\* odd names
StatsLogs ==
  {<<Bench(l)>> : l \in StatsLists}
    \cup {<<Overhead, Bench(<<a>>)>> : a \in StatsSets}
    \cup {<<Bench(<<a>>), Bench(<<DoneSet>>)>> : a \in StatsSets}
    \cup {<<Named(<<>>, <<DoneSet>>)>>, <<Bench(<<DoneSet>>), Named(<<>>, <<DoneSet>>)>>,
           OddLog}

\* a record completed at time t
DatedRecord(record, t) == [record EXCEPT !.date = t]

StatsRecords == {SummaryRecord} \cup {RecordOf(log) : log \in StatsLogs}

\* the histories of at most so many records, completed one clock step apart,
\* newest first
StatsHistories(most) ==
  UNION {{Numbered([i \in 1..n |-> DatedRecord(f[i], Millis((n - i) * ClockStep))]) :
            f \in [1..n -> StatsRecords]} : n \in 0..most}

InitStats ==
  \E h \in StatsHistories(MaxHist) :
    OpenedAt([plans |-> StoredNothing,
              history |-> IF Len(h) = 0 THEN StoredNothing ELSE Stored(h),
              quota |-> NoQuota], Millis(MaxHist * ClockStep))

\* setSelectedExercise(name) by the exercise Select of the Stats view
SelectExercise ==
  /\ LayoutOnScreen
  /\ view = "STATS"
  /\ \E name \in ExerciseNames(history) :
       stats' = [stats EXCEPT !.selectedExercise = name]
  /\ lastOp' = [op |-> "selectExercise", changed |-> FALSE]
  /\ UNCHANGED <<appVars, phase, props, session, lastWeights, elapsed, now, calls, manager,
                 pending>>

NextStats ==
  \/ Navigate
  \/ SelectExercise

SpecStats == InitStats /\ [][NextStats]_vars

-----------------------------------------------------------------------------
(* SpecSeries: the Stats view on stored histories in every order of dates.    *)

SeriesRecords ==
  {SummaryRecord} \cup {RecordOf(<<Bench(<<a, b>>)>>) : a, b \in StatsSets}

\* the orders in which n records can lie in the store
Orders(n) == {p \in [1..n -> 1..n] : \A i, j \in 1..n : p[i] = p[j] => i = j}

\* the histories of at most so many records completed one clock step apart,
\* stored in any order
ShuffledHistories(most) ==
  UNION {{Numbered([i \in 1..n |-> DatedRecord(f[i], Millis((p[i] - 1) * ClockStep))]) :
            f \in [1..n -> SeriesRecords], p \in Orders(n)} : n \in 0..most}

InitSeries ==
  \E h \in ShuffledHistories(MaxHist) :
    OpenedAt([plans |-> StoredNothing,
              history |-> IF Len(h) = 0 THEN StoredNothing ELSE Stored(h),
              quota |-> NoQuota], Millis(MaxHist * ClockStep))

SpecSeries == InitSeries /\ [][NextStats]_vars

-----------------------------------------------------------------------------
(* SpecEpley: the Epley estimate of Stats.tsx on pairs of sets that share     *)
(* their weight or their repetitions.  The weights and the repetitions are    *)
(* doubles: the whole numbers up to a bound, and doubles that lie next to     *)
(* each other, below the normal range and at the end of the finite range.     *)
(* The variable stats holds the sets compared and their estimates here.       *)

\* the whole weights and rep counts from 0 up to these are all compared
MaxWeight == 3
MaxReps == 3
\* the greatest whole weight and rep count compared
MaxWhole == 1000000

\* the double (2^53 - n) * 2^e
BelowPower(n, e) ==
  Round(0, BigSub(BigShiftLeft(<<1>>, Precision), Digits(n)), e, FALSE)

\* the double n * 2^e of a whole number n > 0
Scaled(n, e) == Round(0, Digits(n), e, FALSE)

\* whole numbers up to MaxWhole: the least ones, and the two greatest
WholeWeights == {DoubleOf(w) : w \in (0..MaxWeight) \cup {MaxWhole - 1, MaxWhole}}

WholeReps == {DoubleOf(r) : r \in (0..MaxReps) \cup {MaxWhole - 1, MaxWhole}}

\* the two doubles below 2, the two doubles below 2^53, which are whole
\* numbers, 2.5 of the weight stepper, the least double above 0 and the
\* greatest finite double
EpleyWeights ==
  WholeWeights \cup {BelowPower(2, 1 - Precision), BelowPower(1, 1 - Precision),
                     BelowPower(2, 0), BelowPower(1, 0),
                     Scaled(5, 0 - 1), Scaled(1, MinExponent), BelowPower(1, MaxExponent)}

\* the whole rep counts, and half a repetition as it can be typed
EpleyReps == WholeReps \cup {Scaled(1, 0 - 1)}

EpleySets == [weight : EpleyWeights, reps : EpleyReps]

\* the Stats view has two completed sets to estimate
InitEpley ==
  \E a, b \in EpleySets :
    /\ a.weight = b.weight \/ a.reps = b.reps
    /\ stats = [sets |-> <<a, b>>, estimates |-> <<>>]
    /\ view = "STATS"
    /\ plans = DEFAULT_PLANS(Millis(0))
    /\ history = <<>>
    /\ storage = [plans |-> Stored(DEFAULT_PLANS(Millis(0))), history |-> StoredNothing,
                  quota |-> NoQuota]
    /\ activePlan = NoPlan
    /\ activeDayId = NoDayId
    /\ phase = "idle"
    /\ props = NoProps
    /\ session = NoSession
    /\ lastWeights = <<>>
    /\ elapsed = 0
    /\ now = Millis(0)
    /\ lastOp = NoOp
    /\ calls = 0
    /\ manager = ManagerMounted
    /\ pending = <<>>

\* const oneRepMax = s.weight * (1 + s.reps / 30) for each of the sets
EstimateSets ==
  /\ stats.estimates = <<>>
  /\ stats' = [stats EXCEPT
                 !.estimates = [k \in 1..Len(stats.sets) |->
                                  oneRepMax(stats.sets[k].weight, stats.sets[k].reps)]]
  /\ lastOp' = [op |-> "estimate", changed |-> FALSE]
  /\ UNCHANGED <<appVars, phase, props, session, lastWeights, elapsed, now, calls, manager,
                 pending>>

NextEpley == EstimateSets

SpecEpley == InitEpley /\ [][NextEpley]_vars

-----------------------------------------------------------------------------
(* SpecWeeks: the Stats view five weeks after the epoch, on stored histories  *)
(* whose records lie at and next to the ends of the weeks.                    *)

WeeksNow == Time(35, 0)

\* the ages of the stored records: now, the last millisecond of the first
\* day, the ends of the first and of the fourth week and the millisecond
\* before each, two weeks, five weeks; and, of a record dated after now, the
\* millisecond after now
Ages ==
  {Time(0, 0), Time(0, Day - 1), Time(6, Day - 1), Time(7, 0), Time(14, 0),
   Time(27, Day - 1), Time(28, 0), Time(35, 0), Millis(0 - 1)}

WeeksRecords ==
  {DatedRecord(r, TimeMinus(WeeksNow, a)) : r \in {SummaryRecord, PriorRecord}, a \in Ages}

WeeksHistories(most) ==
  {Numbered(h) : h \in UNION {[1..n -> WeeksRecords] : n \in 0..most}}

InitWeeks ==
  \E h \in WeeksHistories(MaxHist) :
    OpenedAt([plans |-> StoredNothing,
              history |-> IF Len(h) = 0 THEN StoredNothing ELSE Stored(h),
              quota |-> NoQuota], WeeksNow)

SpecWeeks == InitWeeks /\ [][NextStats]_vars

-----------------------------------------------------------------------------
(* SpecFrame: a workout of one exercise that is logged, then finished or      *)
(* cancelled, and the plans screen after it.                                  *)

\* a record whose Bench Press entry holds a completed set and, after it, a
\* heavier set left open
OpenSetRecord ==
  RecordOf(<<Bench(<<[weight |-> 1, reps |-> TypedReps, completed |-> TRUE],
                     [weight |-> 2, reps |-> TypedReps, completed |-> FALSE]>>)>>)

InitFrame ==
  \E record \in {PriorRecord, OpenSetRecord} :
    Mounted(CustomPlan, ZeroTargetDay, <<record>>)

NextFrame ==
  \/ Next
  \/ CancelWorkout
  \/ Navigate
  \/ SelectPlan
  \/ BackToList
  \/ DeletePlan
  \/ StartWorkout

SpecFrame == InitFrame /\ [][NextFrame]_vars

-----------------------------------------------------------------------------
(* SpecStepper: the two steppers of a set row: the minus button, the plus     *)
(* button and the number typed into the field.  A weight is counted in        *)
(* halves of the unit here, so that the weight step of 2.5 is whole.          *)

\* step={2.5}, in halves
WeightStep == 5
\* step={1}
RepsStep == 1

MaxValue == 6

\* what parseFloat makes of the text of the number field: NaN of the empty
\* field, or the number typed, with its sign
TypedTexts == {NaN, 0 - 1, 0, 1}

\* onChange(Number((value + step).toFixed(2)))
handleIncrement(value, step) == JsAdd(value, step)

\* onChange(Math.max(min, Number((value - step).toFixed(2)))), with min = 0
handleDecrement(value, step) ==
  IF ~IsNumber(value) THEN NaN
  ELSE IF value - step > 0 THEN value - step ELSE 0

\* onChange(parseFloat(e.target.value) || 0)
handleTyped(parsed) == IF parsed = NaN \/ parsed = 0 THEN 0 ELSE parsed

\* the step of the stepper of a field
StepOf(field) == IF field = "weight" THEN WeightStep ELSE RepsStep

\* the value a stepper shows: the field of set i of the exercise
ShownValue(exerciseId, i, field) ==
  NumField(SetsOf(session.exercises, exerciseId)[i + 1], field)

StepperPlus ==
  /\ \E e \in DayIds(props.day) : \E i \in Rows(session, e) :
       \E field \in {"weight", "reps"} :
         /\ ShownValue(e, i, field) + StepOf(field) <= MaxValue
         /\ UpdateSet(e, i, field, handleIncrement(ShownValue(e, i, field), StepOf(field)))
  /\ UNCHANGED <<calls, stats, manager, pending>>

StepperMinus ==
  /\ \E e \in DayIds(props.day) : \E i \in Rows(session, e) :
       \E field \in {"weight", "reps"} :
         UpdateSet(e, i, field, handleDecrement(ShownValue(e, i, field), StepOf(field)))
  /\ UNCHANGED <<calls, stats, manager, pending>>

StepperTyped ==
  /\ \E e \in DayIds(props.day) : \E i \in Rows(session, e) :
       \E field \in {"weight", "reps"} : \E parsed \in TypedTexts :
         UpdateSet(e, i, field, handleTyped(parsed))
  /\ UNCHANGED <<calls, stats, manager, pending>>

NextStepper ==
  \/ InitEffect
  \/ PlusClick
  \/ StepperPlus
  \/ StepperMinus
  \/ StepperTyped

SpecStepper == InitFrame /\ [][NextStepper]_vars

-----------------------------------------------------------------------------
(* SpecFinishes: a workout of one exercise, mounted with a history that       *)
(* earlier finishes of such a workout have built, logged with every control   *)
(* of the session screen and finished in its turn.                            *)

SoloDay ==
  [id |-> "f-day", name |-> "Day 1",
   exercises |-> <<[id |-> "f-ex-1", name |-> BenchPress, targetSets |-> 1, targetReps |-> "8-12"]>>]

SoloPlan ==
  [id |-> "f-plan", name |-> "My Split", description |-> "", createdAt |-> Millis(0),
   isAiGenerated |-> FALSE, days |-> <<SoloDay>>]

\* what a set of the earlier workout held when it was finished
FinishedSets == [weight : {TypedWeight}, reps : {TypedReps}, completed : BOOLEAN]

\* the sessions of the earlier workout at its finish: one set, or two
FinishedSessions ==
  {[MountedSession(SoloPlan, SoloDay, Millis(0), MountedId) EXCEPT
      !.exercises = <<[id |-> "f-ex-1", sets |-> l]>>] :
     l \in {<<a>> : a \in FinishedSets} \cup {<<a, b>> : a, b \in FinishedSets}}

\* the histories finishes alone have built: none yet, or the records
\* handleFinishWorkout made of the earlier workouts
FinishedHistories(most) ==
  {Numbered(h) :
     h \in UNION {[1..n -> {FinishRecord(RecordId(1), sess, SoloPlan, SoloDay, Millis(0),
                                         Millis(0)) :
                              sess \in FinishedSessions}] : n \in 0..most}}

InitFinishes == \E h \in FinishedHistories(MaxHist) : Mounted(SoloPlan, SoloDay, h)

SpecFinishes == InitFinishes /\ [][Next]_vars

------------------------------------------------------------------------------
(* SpecMutators: a workout of a two-exercise day that was logged once before, *)
(* both exercises completed, with every control of the session screen.        *)

\* the earlier workout of the day, as handleFinishWorkout records it: one
\* completed set of each exercise at the typed weight and reps
BothRecord ==
  [id |-> RecordId(1), date |-> Millis(0), planName |-> "My Split", dayName |-> "Day 1", durationSeconds |-> 60,
   totalVolume |-> 2 * TypedWeight * TypedReps, exercisesCompleted |-> 2,
   exercises |-> <<[name |-> BenchPress,
                    sets |-> <<[weight |-> TypedWeight, reps |-> TypedReps,
                                completed |-> TRUE]>>],
                   [name |-> OverheadPress,
                    sets |-> <<[weight |-> TypedWeight, reps |-> TypedReps,
                                completed |-> TRUE]>>]>>]

InitMutators == Mounted(CustomPlan, LoggedDay, <<BothRecord>>)

SpecMutators == InitMutators /\ [][Next]_vars

-----------------------------------------------------------------------------
(* SpecStore: the application on a store whose quota is nearly used up: there *)
(* is room for the default plans and no more, for the default plans and one   *)
(* more plan, or for what the store holds and the default plans.              *)

\* the room a store takes that holds the plans ps and the history h
RoomFor(ps, h) ==
  (IF Len(ps) > 0 THEN ItemChars("plans", ps) ELSE 0)
    + (IF Len(h) > 0 THEN ItemChars("history", h) ELSE 0)

FullStores ==
  {[plans |-> StoredNothing, history |-> StoredNothing, quota |-> Quota(0)],
   [plans |-> StoredNothing, history |-> StoredNothing,
    quota |-> Quota(RoomFor(DEFAULT_PLANS(Millis(0)), <<>>))],
   [plans |-> StoredNothing, history |-> StoredNothing,
    quota |-> Quota(RoomFor(<<NewPlan(Millis(MaxClock))>> \o DEFAULT_PLANS(Millis(0)), <<>>))],
   [plans |-> StoredNothing, history |-> Stored(<<PriorRecord>>),
    quota |-> Quota(RoomFor(DEFAULT_PLANS(Millis(0)), <<PriorRecord>>))]}

InitStore == \E st \in FullStores : OpenedOn(st)

SpecStore == InitStore /\ [][NextApp]_vars

-----------------------------------------------------------------------------
(* What a finished session must have recorded, stated over the session itself *)

\* the positions of the completed sets of a list
CompletedAt(sets) == {i \in 1..Len(sets) : Completed(sets[i])}

\* the position of the j-th completed set of a list
NthCompleted(sets, j) ==
  CHOOSE i \in CompletedAt(sets) : Cardinality({m \in CompletedAt(sets) : m <= i}) = j

\* the positions of the session's exercises that have a completed set
DoneAt(sess) ==
  {k \in 1..Len(sess.exercises) : CompletedAt(sess.exercises[k].sets) # {}}

\* the position of the j-th exercise that has a completed set
NthDone(sess, j) ==
  CHOOSE k \in DoneAt(sess) : Cardinality({m \in DoneAt(sess) : m <= k}) = j

\* (exercise, set) for every completed set of the session
CompletedPairs(sess) ==
  UNION {{<<k, i>> : i \in CompletedAt(sess.exercises[k].sets)} :
           k \in 1..Len(sess.exercises)}

RECURSIVE SumVolume(_, _)
SumVolume(sess, pairs) ==
  IF pairs = {} THEN 0
  ELSE LET p == CHOOSE q \in pairs : TRUE
           s == sess.exercises[p[1]].sets[p[2]]
       IN JsAdd(JsMul(NumField(s, "weight"), NumField(s, "reps")),
                SumVolume(sess, pairs \ {p}))

Finished == lastOp.op = "finish"

\* a finish has been requested
FinishRequested == lastOp.op \in {"finish", "finishUnsaved", "finishRejected"}

\* the step is a finish that produced a record, saved or not: the session is
\* the one before the step, the record is the first of the history after it
Finishing == phase = "live" /\ lastOp'.op \in {"finish", "finishUnsaved"}

\* C1: the record a finish produces has totalVolume equal to the sum of
\* weight * reps over exactly the sets completed at finish time, and its
\* detailed log holds exactly those sets: every logged set is completed, and
\* the j-th log entry lists, in order, the completed sets of the j-th exercise
\* that has any.
C1_FinishVolume ==
  [][Finishing =>
       LET rec == history'[1]
       IN /\ rec.totalVolume = SumVolume(session, CompletedPairs(session))
          /\ \A j \in 1..Len(rec.exercises) :
               /\ j <= Cardinality(DoneAt(session))
               /\ LET sets == session.exercises[NthDone(session, j)].sets
                      logged == rec.exercises[j].sets
                  IN /\ Len(logged) = Cardinality(CompletedAt(sets))
                     /\ \A n \in 1..Len(logged) :
                          /\ Completed(logged[n])
                          /\ NumField(logged[n], "weight")
                               = NumField(sets[NthCompleted(sets, n)], "weight")
                          /\ NumField(logged[n], "reps")
                               = NumField(sets[NthCompleted(sets, n)], "reps")]_vars

\* a workout of the two-exercise day has been finished with completed sets in
\* both exercises: one set of Bench Press of non-zero volume is logged, the
\* other set of that exercise, which the day always holds, is not
C1_Witness ==
  /\ Finished
  /\ history[1].dayName = LoggedDay.name
  /\ history[1].totalVolume > 0
  /\ Len(history[1].exercises) = 2
  /\ history[1].exercises[1].name = BenchPress
  /\ Len(history[1].exercises[1].sets) = 1

\* C2: a finish yields one detail entry per session exercise that has a
\* completed set, in the session's order and under that exercise's name, none
\* for an exercise without a completed set, and exercisesCompleted is the
\* number of detail entries.
C2_FinishEntries ==
  [][Finishing =>
       LET rec == history'[1]
       IN /\ Len(rec.exercises) = Cardinality(DoneAt(session))
          /\ rec.exercisesCompleted = Len(rec.exercises)
          /\ \A j \in 1..Len(rec.exercises) :
               rec.exercises[j].name
                 = ExerciseName(props.day, session.exercises[NthDone(session, j)].id)]_vars

\* a workout of the two-exercise day, each of whose exercises holds a set, has
\* been finished with a completed set in one exercise only
C2_Witness ==
  /\ Finished
  /\ history[1].dayName = LoggedDay.name
  /\ Len(history[1].exercises) = 1
  /\ history[1].exercisesCompleted = 1

\* C7: removeSet on a list of exactly one set changes nothing in the session;
\* on a list of n > 1 sets it drops the last set and leaves the other sets of
\* the list, in place, and every other exercise as they were.
C7_RemoveSetFloor ==
  [][\A e \in DayIds(props.day) :
       (phase = "live" /\ lastOp'.op = "removeSet" /\ RemoveSet(e)) =>
         LET before == SetsOf(session.exercises, e)
             after == SetsOf(session'.exercises, e)
         IN /\ Len(before) = 1 => session' = session
            /\ Len(before) > 1 =>
                 /\ Len(after) = Len(before) - 1
                 /\ \A i \in 1..Len(after) : after[i] = before[i]
                 /\ Keys(session'.exercises) = Keys(session.exercises)
                 /\ \A o \in Keys(session.exercises) \ {e} :
                      SetsOf(session'.exercises, o) = SetsOf(session.exercises, o)]_vars

\* removeSet has just run on a list of one set and left the session as it was
C7_Witness ==
  /\ phase = "live"
  /\ lastOp = [op |-> "removeSet", changed |-> FALSE]
  /\ props.day = LoggedDay
  /\ \A k \in 1..Len(session.exercises) : Len(session.exercises[k].sets) >= 1
  /\ \E k \in 1..Len(session.exercises) : Len(session.exercises[k].sets) = 1

\* C8: in a live session every exercise has at least one set in its list.
C8_AtLeastOneSet ==
  phase = "live" =>
    \A k \in 1..Len(session.exercises) : Len(session.exercises[k].sets) >= 1

\* the initialisation effect has just run and the component is on screen
Initialised == lastOp.op = "initialize" /\ phase = "live"

\* the weight the effect recorded as carried forward for an exercise
CarriedWeight(exerciseId) ==
  lastWeights[CHOOSE i \in 1..Len(lastWeights) : lastWeights[i].id = exerciseId].weight

\* the record holds a detail entry with the name
NamesExercise(record, name) ==
  /\ "exercises" \in DOMAIN record
  /\ \E k \in 1..Len(record.exercises) : record.exercises[k].name = name

\* the first detail entry of the record with the name
FirstEntry(record, name) ==
  record.exercises[CHOOSE k \in 1..Len(record.exercises) :
                     /\ record.exercises[k].name = name
                     /\ \A j \in 1..(k - 1) : record.exercises[j].name # name]

\* the first detail entry with the name holds at least one set
MatchesExercise(record, name) ==
  NamesExercise(record, name) /\ Len(FirstEntry(record, name).sets) > 0

Least(S) == CHOOSE i \in S : \A j \in S : i <= j

Greatest(S) == CHOOSE i \in S : \A j \in S : j <= i

\* the position of the newest record naming the exercise, 0 when there is none
NewestNaming(hist, name) ==
  LET S == {i \in 1..Len(hist) : NamesExercise(hist[i], name)}
  IN IF S = {} THEN 0 ELSE Least(S)

\* the position of the newest record matching the exercise, 0 when there is none
NewestMatching(hist, name) ==
  LET S == {i \in 1..Len(hist) : MatchesExercise(hist[i], name)}
  IN IF S = {} THEN 0 ELSE Least(S)

\* C3: within the history entry matched for an exercise, the carried-forward
\* weight is the weight of the completed set with the highest index; when no
\* set of the entry is completed it is the weight of the entry's last set.
C3_CarryWithinEntry ==
  Initialised =>
    \A x \in 1..Len(props.day.exercises) :
      LET ex == props.day.exercises[x]
          m == NewestMatching(history, ex.name)
      IN m # 0 =>
           LET sets == FirstEntry(history[m], ex.name).sets
               done == {i \in 1..Len(sets) : sets[i].completed}
           IN CarriedWeight(ex.id) =
                IF done # {} THEN sets[Greatest(done)].weight
                ELSE sets[Len(sets)].weight

\* the matched Bench Press entry has a completed set followed by an
\* uncompleted set of another weight, and no set of the matched Overhead Press
\* entry is completed
C3_Witness ==
  /\ Initialised
  /\ Len(history) >= 1
  /\ "exercises" \in DOMAIN history[1]
  /\ history[1].exercises =
       <<Overhead, Bench(<<[weight |-> 1, reps |-> TypedReps, completed |-> TRUE],
                           [weight |-> 2, reps |-> TypedReps, completed |-> FALSE]>>)>>
  /\ CarriedWeight("i-ex-1") = 1
  /\ CarriedWeight("i-ex-2") = 1

\* C4 as stated: the carried-forward weight is determined solely by the newest
\* record that contains a detail entry with the exercise's name; it is what
\* that record alone carries forward, whatever the older records hold.
C4_NewestNamingDecides ==
  Initialised =>
    \A x \in 1..Len(props.day.exercises) :
      LET ex == props.day.exercises[x]
          m == NewestNaming(history, ex.name)
      IN m # 0 =>
           CarriedWeight(ex.id) = findLastWeightForExercise(ex.name, <<history[m]>>)

\* C4: the carried-forward weight is determined solely by the newest record
\* whose first detail entry with the exercise's name holds at least one set;
\* it is what that record alone carries forward, whatever the newer records
\* (which are skipped) and the older records hold.
C4_NewestMatchingDecides ==
  Initialised =>
    \A x \in 1..Len(props.day.exercises) :
      LET ex == props.day.exercises[x]
          m == NewestMatching(history, ex.name)
      IN m # 0 =>
           CarriedWeight(ex.id) = findLastWeightForExercise(ex.name, <<history[m]>>)

\* two records match Bench Press and would carry different weights; the
\* newer one decided
C4_Witness ==
  /\ Initialised
  /\ Len(history) = 2
  /\ MatchesExercise(history[1], BenchPress)
  /\ MatchesExercise(history[2], BenchPress)
  /\ findLastWeightForExercise(BenchPress, <<history[1]>>) = 1
  /\ findLastWeightForExercise(BenchPress, <<history[2]>>) = 2
  /\ CarriedWeight("i-ex-1") = 1

\* what the initialisation leaves for one exercise: count sets, each with
\* reps 0, not completed and the carried weight, which is 0 when no record
\* names the exercise
InitialisedWith(ex, count) ==
  LET sets == SetsOf(session.exercises, ex.id)
  IN /\ HasKey(session.exercises, ex.id)
     /\ Len(sets) = count
     /\ \A i \in 1..Len(sets) :
          sets[i] = [weight |-> CarriedWeight(ex.id), reps |-> 0, completed |-> FALSE]
     /\ NewestNaming(history, ex.name) = 0 =>
          /\ CarriedWeight(ex.id) = 0
          /\ \A i \in 1..Len(sets) : sets[i].weight = 0

\* C6 as stated: initialisation creates, for every exercise of the day,
\* exactly targetSets sets, each with reps 0, completed false and the carried
\* weight, which is 0 when no history record names the exercise.
C6_ExactlyTargetSets ==
  Initialised =>
    \A x \in 1..Len(props.day.exercises) :
      InitialisedWith(props.day.exercises[x], props.day.exercises[x].targetSets)

\* C6: initialisation creates, for every exercise of the day, targetSets sets
\* when targetSets is positive and no set otherwise, each with reps 0,
\* completed false and the carried weight, which is 0 when no history record
\* names the exercise.
C6_TargetSetsOrNone ==
  Initialised =>
    \A x \in 1..Len(props.day.exercises) :
      LET ex == props.day.exercises[x]
      IN InitialisedWith(ex, IF ex.targetSets > 0 THEN ex.targetSets ELSE 0)

\* Bench Press got two sets of a weight carried from the history, Overhead
\* Press, which no record names, one set of weight 0
C6_Witness ==
  /\ Initialised
  /\ Len(SetsOf(session.exercises, "i-ex-1")) = 2
  /\ CarriedWeight("i-ex-1") = 2
  /\ NewestNaming(history, OverheadPress) = 0
  /\ SetsOf(session.exercises, "i-ex-2") = <<[weight |-> 0, reps |-> 0, completed |-> FALSE]>>

\* C5 as stated: once the history holds a finished session in which an
\* exercise had completed sets, a workout started on a day with an exercise of
\* that name is initialised from the application's current history: the
\* component is on screen and every set of that exercise carries the weight of
\* the last completed set of the newest such session.
C5_NextWorkoutCarries ==
  lastOp.op \in {"initialize", "start"} =>
    \A x \in 1..Len(props.day.exercises) :
      LET ex == props.day.exercises[x]
          m == NewestMatching(history, ex.name)
      IN (m # 0 /\ \E i \in 1..Len(FirstEntry(history[m], ex.name).sets) :
                     FirstEntry(history[m], ex.name).sets[i].completed) =>
           LET logged == FirstEntry(history[m], ex.name).sets
               last == Greatest({i \in 1..Len(logged) : logged[i].completed})
               sets == SetsOf(session.exercises, ex.id)
           IN /\ phase = "live"
              /\ Len(sets) = ex.targetSets
              /\ \A i \in 1..Len(sets) : sets[i].weight = logged[last].weight

\* a call addresses no set: the exercise id is not a key of the session, or
\* the index is outside the list
AddressesNoSet(sess, e, i) ==
  \/ ~HasKey(sess.exercises, e)
  \/ i < 0
  \/ i >= Len(SetsOf(sess.exercises, e))

\* C9: an updateSet or toggleComplete call that addresses an exercise id absent
\* from the session, or an index outside the exercise's list, leaves the
\* session unchanged.
C9_InvalidCallRejected ==
  [][\A e \in CallIds(props.day) : \A i \in CallIndexes :
       ( /\ phase = "live"
         /\ AddressesNoSet(session, e, i)
         /\ \/ \E v \in WeightVals : UpdateSet(e, i, "weight", v)
            \/ \E v \in RepVals : UpdateSet(e, i, "reps", v)
            \/ \E v \in BOOLEAN : UpdateSet(e, i, "completed", v)
            \/ ToggleComplete(e, i) )
       => session' = session]_vars

\* C10: the keys of a live session's exercise mapping are exercise ids of its
\* workout day.
C10_KeysWithinDay ==
  phase = "live" => Keys(session.exercises) \subseteq DayIds(props.day)

\* C11: addSet appends exactly one set to the end of the exercise's list; the
\* new set is not completed and has the weight and reps of the list's previous
\* last set, whatever that set's completed flag, or weight 0 and reps 0 when
\* the list was empty; every earlier set keeps its position and contents, and
\* the lists of the other exercises are untouched.
C11_AddSetAppends ==
  [][\A e \in DayIds(props.day) :
       (phase = "live" /\ lastOp'.op = "addSet" /\ AddSet(e)) =>
         LET before == SetsOf(session.exercises, e)
             after == SetsOf(session'.exercises, e)
         IN /\ Len(after) = Len(before) + 1
            /\ \A i \in 1..Len(before) : after[i] = before[i]
            /\ after[Len(after)] =
                 IF Len(before) = 0
                 THEN [weight |-> 0, reps |-> 0, completed |-> FALSE]
                 ELSE [weight |-> before[Len(before)].weight,
                       reps |-> before[Len(before)].reps,
                       completed |-> FALSE]
            /\ \A o \in DayIds(props.day) \ {e} :
                 SetsOf(session'.exercises, o) = SetsOf(session.exercises, o)]_vars

\* addSet has just copied a completed last set with typed weight and reps
C11_Witness ==
  /\ phase = "live"
  /\ lastOp = [op |-> "addSet", changed |-> TRUE]
  /\ \E k \in 1..Len(session.exercises) :
       LET sets == session.exercises[k].sets
       IN /\ Len(sets) >= 2
          /\ sets[Len(sets) - 1] =
               [weight |-> TypedWeight, reps |-> TypedReps, completed |-> TRUE]
          /\ sets[Len(sets)] =
               [weight |-> TypedWeight, reps |-> TypedReps, completed |-> FALSE]


\* the value toggleComplete's caller would hand to updateSet: the negation of
\* the addressed set's current completed value
NegatedCompleted(sess, e, i) == ~Completed(At(Spread(SetsOf(sess.exercises, e)), i))

\* C12 as stated: for every session, exercise id and set index,
\* toggleComplete(exerciseId, setIndex) leaves the component in the state that
\* updateSet(exerciseId, setIndex, 'completed', negation of the current value)
\* would leave it in.
C12_ToggleIsUpdate ==
  [][\A e \in CallIds(props.day) : \A i \in CallIndexes :
       (phase = "live" /\ ToggleComplete(e, i)) =>
         IF SpreadThrows(session, e)
         THEN phase' = "crashed" /\ session' = session
         ELSE LET next == updateSet(session, e, i, "completed",
                                    NegatedCompleted(session, e, i))
              IN IF RenderThrows(next, props.day)
                 THEN phase' = "crashed" /\ session' = session
                 ELSE phase' = "live" /\ session' = next]_vars


\* the duration of the newest record is the whole number of seconds between
\* the session's start and the record's completion timestamp
DurationFromTimestamps ==
  Finishing =>
    LET d == history'[1].durationSeconds
        span == TimeMinus(history'[1].date, session.startTime)
    IN ~TimeLess(span, Millis(d * 1000)) /\ TimeLess(span, Millis((d + 1) * 1000))

\* a timer tick adds one to the elapsed counter and changes nothing else
TickFrame ==
  Tick => /\ elapsed' = elapsed + 1
          /\ session' = session
          /\ history' = history
          /\ storage' = storage
          /\ phase' = phase

\* C13: the record's durationSeconds equals floor((finish timestamp - session
\* start timestamp) / 1000) however many timer ticks fired during the session,
\* and a timer tick changes only the elapsed counter: the session's sets and
\* start time and the history stay as they were.
C13_DurationFromClock == [][DurationFromTimestamps /\ TickFrame]_vars


\* a session is open: ActiveWorkout is mounted
SessionOpen == phase \in {"mounted", "live"}

\* C14: at most one live session exists at any time: a workout is started
\* only when no session is open, and while a session stays open it stays the
\* same session, whatever the navigation, start, finish and cancel controls on
\* screen are used for.
C14_SingleSession ==
  [][/\ StartWorkout => ~SessionOpen
     /\ Navigate => ~SessionOpen
     /\ (SessionOpen /\ SessionOpen') =>
          /\ session'.id = session.id
          /\ session'.planId = session.planId
          /\ session'.dayId = session.dayId
          /\ session'.startTime = session.startTime
          /\ props' = props]_vars

\* a second workout is live, under an id of its own, after a first one was
\* started and finished
C14_Witness ==
  /\ phase = "live"
  /\ WorkoutOnScreen
  /\ session.id # MountedId
  /\ Len(history) >= 1
  /\ history[1].planName = NewPlan(now).name


\* C15: after any sequence of finished workouts the history is ordered
\* newest-first: of two adjacent records the one nearer the front has a
\* completion timestamp greater than or equal to the other's.
C15_NewestFirst ==
  \A i \in 1..(Len(history) - 1) : ~TimeLess(history[i].date, history[i + 1].date)

\* a workout has just been finished later than the one recorded before it
C15_Witness ==
  /\ Finished
  /\ Len(history) >= 2
  /\ TimeLess(history[2].date, history[1].date)

\* C16 as stated: a successful finish adds exactly one record at the front of
\* the history and leaves every record stored before present, unmodified and
\* in the same order; no step makes the history shorter.
C16_FinishPrepends ==
  [][/\ (FinishWorkout /\ lastOp'.op = "finish") =>
          /\ Len(history') = Len(history) + 1
          /\ \A i \in 1..Len(history) : history'[i + 1] = history[i]
     /\ Len(history') >= Len(history)]_vars


\* the newest record of the history is the newest record of the store
NewestRecordStored ==
  /\ Len(history) >= 1
  /\ storage.history.present
  /\ Len(storage.history.value) = Len(history)
  /\ storage.history.value[1] = JsonRecord(history[1])

\* C17 as stated: whenever a finish is requested, either the record it
\* produced is in the history store, or the failure has reached the caller:
\* the workout that asked for the finish is still on screen with its session.
C17_RecordedOrSurfaced ==
  FinishRequested => (NewestRecordStored \/ phase = "live")


\* the records of the history that hold a detail entry with the name one of
\* whose sets is completed
RecordsWithCompleted(hist, name) ==
  {i \in 1..Len(hist) :
     /\ "exercises" \in DOMAIN hist[i]
     /\ \E k \in 1..Len(hist[i].exercises) :
          /\ hist[i].exercises[k].name = name
          /\ \E j \in 1..Len(hist[i].exercises[k].sets) :
               hist[i].exercises[k].sets[j].completed}

\* the sum of weight * reps over the completed sets of a list
RECURSIVE CompletedVolume(_)
CompletedVolume(sets) ==
  IF Len(sets) = 0 THEN 0
  ELSE (IF sets[1].completed THEN sets[1].weight * sets[1].reps ELSE 0)
         + CompletedVolume(Tail(sets))

\* the records of the history whose first detail entry with the name has
\* completed sets of positive volume
RecordsWithVolume(hist, name) ==
  {i \in 1..Len(hist) :
     /\ NamesExercise(hist[i], name)
     /\ CompletedVolume(FirstEntry(hist[i], name).sets) > 0}

\* the series of the name has exactly one point for each of the records
SeriesCovers(name, records) ==
  LET series == exerciseStats(history, name)
  IN /\ Len(series) = Cardinality(records)
     /\ {series[k].date : k \in 1..Len(series)} = {history[i].date : i \in records}

\* the Stats view has been rendered on the history
StatsRendered == view = "STATS"

\* the Stats view is on screen
StatsOnScreen == view = "STATS" /\ phase # "crashed"

\* C20 as stated: the progression series of an exercise name has one point
\* for every history record that has a detail entry with that name holding at
\* least one completed set, and no point for any other record.
C20_PointPerCompletedEntry ==
  \A name \in ExerciseNames(history) :
    SeriesCovers(name, RecordsWithCompleted(history, name))

\* C20: the progression series of an exercise name other than the empty one
\* has one point for every history record whose first detail entry with that
\* name has a positive sum of weight * reps over its completed sets, and no
\* point for any other record: an entry is left out exactly when that sum is
\* not positive.  For the empty name the series has no point at all, and a
\* history that holds an entry of the empty name is never shown: the Stats
\* view throws when it is rendered.
C20_PointPerPositiveVolume ==
  /\ \A name \in ExerciseNames(history) \ {<<>>} :
       SeriesCovers(name, RecordsWithVolume(history, name))
  /\ exerciseStats(history, <<>>) = <<>>
  /\ (StatsRendered /\ <<>> \in ExerciseNames(history)) => ~StatsOnScreen
  /\ StatsOnScreen =>
       /\ stats.selectedExercise \in ExerciseNames(history) \cup {<<>>}
       /\ (stats.selectedExercise = <<>>) = (ExerciseNames(history) = {})

\* of two records naming Bench Press, the newer has no completed set and the
\* older has one: the series shown holds the older record's point only
C20_Witness ==
  /\ StatsOnScreen
  /\ stats.selectedExercise = BenchPress
  /\ Len(history) = 2
  /\ NamesExercise(history[1], BenchPress)
  /\ RecordsWithCompleted(history, BenchPress) = {2}
  /\ Len(exerciseStats(history, stats.selectedExercise)) = 1
  /\ exerciseStats(history, stats.selectedExercise)[1].date = history[2].date
  /\ exerciseStats(history, stats.selectedExercise)[1].volume = 2 * TypedReps


\* C18: a reload of the application from storage loads the history that was
\* in memory before it, record for record and in the same order, so the
\* progression series computed from it are the same.
C18_ReloadKeepsHistory ==
  [][Reload =>
       /\ history' = history
       /\ \A name \in ExerciseNames(history) :
            exerciseStats(history', name) = exerciseStats(history, name)]_vars


\* C19: finishing a session none of whose sets is completed is not rejected:
\* it puts one more record in front of the history, with totalVolume 0,
\* exercisesCompleted 0 and no detail entry.
C19_EmptyFinishRecorded ==
  [][(phase = "live" /\ FinishRequested' /\ DoneAt(session) = {}) =>
       /\ lastOp'.op # "finishRejected"
       /\ Len(history') = Len(history) + 1
       /\ Tail(history') = history
       /\ history'[1].totalVolume = 0
       /\ history'[1].exercisesCompleted = 0
       /\ history'[1].exercises = <<>>]_vars

\* a workout of the two-exercise day, each of whose exercises holds a set,
\* finished with no set completed into a history that held a record already
C19_Witness ==
  /\ Finished
  /\ history[1].dayName = LoggedDay.name
  /\ Len(history) >= 2
  /\ history[1].totalVolume = 0
  /\ history[1].exercises = <<>>


\* the greatest weight among the completed sets of a list, 0 if there is none
MaxCompletedWeight(sets) ==
  Greatest({0} \cup {sets[j].weight : j \in {n \in 1..Len(sets) : sets[n].completed}})

\* C21: the progression series of every exercise name is in ascending order
\* of date whatever the order of the history, and each point carries the date
\* of a record together with the greatest weight and the sum of weight * reps
\* over the completed sets of that record's entry for the exercise.
C21_SeriesAscending ==
  \A name \in ExerciseNames(history) :
    LET series == exerciseStats(history, name)
    IN /\ \A k \in 1..(Len(series) - 1) : ~TimeLess(series[k + 1].date, series[k].date)
       /\ \A k \in 1..Len(series) :
            \E i \in 1..Len(history) :
              /\ history[i].date = series[k].date
              /\ NamesExercise(history[i], name)
              /\ LET sets == FirstEntry(history[i], name).sets
                 IN /\ series[k].maxWeight = MaxCompletedWeight(sets)
                    /\ series[k].volume = CompletedVolume(sets)

\* a history stored newest first whose two records both give a point, the
\* older one from two completed sets: the series shown runs the other way
\* round
C21_Witness ==
  /\ StatsOnScreen
  /\ stats.selectedExercise = BenchPress
  /\ Len(history) = 2
  /\ TimeLess(history[2].date, history[1].date)
  /\ Len(exerciseStats(history, stats.selectedExercise)) = 2
  /\ exerciseStats(history, stats.selectedExercise)[1].date = history[2].date
  /\ exerciseStats(history, stats.selectedExercise)[1].volume = 2 * (2 * TypedReps)
  /\ exerciseStats(history, stats.selectedExercise)[1].maxWeight = 2


\* the sets have been estimated
Estimated == "estimates" \in DOMAIN stats /\ stats.estimates # <<>>

\* set i has the weight of set j and fewer repetitions
FewerReps(i, j) ==
  /\ stats.sets[i].weight = stats.sets[j].weight
  /\ DoubleGreater(stats.sets[j].reps, stats.sets[i].reps)

\* set i has the repetitions of set j and less weight
LessWeight(i, j) ==
  /\ stats.sets[i].reps = stats.sets[j].reps
  /\ DoubleGreater(stats.sets[j].weight, stats.sets[i].weight)

\* the weight and the repetitions of set i are whole numbers up to MaxWhole
WholeSet(i) == stats.sets[i].weight \in WholeWeights /\ stats.sets[i].reps \in WholeReps

\* C22 as stated: the estimated one-rep maximum weight * (1 + reps / 30) is
\* strictly increasing in reps for every fixed weight and strictly increasing
\* in weight for every fixed number of reps, over all non-negative weights
\* and reps.
C22_EstimateStrictlyIncreasing ==
  Estimated =>
    \A i, j \in 1..Len(stats.sets) :
      (FewerReps(i, j) \/ LessWeight(i, j)) =>
        DoubleGreater(stats.estimates[j], stats.estimates[i])

\* C22: the estimated one-rep maximum weight * (1 + reps / 30), as the code
\* computes it in doubles, never decreases when the reps grow at a fixed
\* weight or the weight grows at a fixed number of reps, over all
\* non-negative weights and reps; it is 0 at weight 0, and between sets of
\* whole numbers up to MaxWhole it is strictly increasing in weight, and in
\* reps at every weight greater than 0.
C22_EstimateNeverDecreasing ==
  Estimated =>
    \A i, j \in 1..Len(stats.sets) :
      /\ (FewerReps(i, j) \/ LessWeight(i, j)) =>
           ~DoubleGreater(stats.estimates[i], stats.estimates[j])
      /\ stats.sets[i].weight = Zero(0) => stats.estimates[i] = Zero(0)
      /\ (WholeSet(i) /\ WholeSet(j) /\ LessWeight(i, j)) =>
           DoubleGreater(stats.estimates[j], stats.estimates[i])
      /\ (WholeSet(i) /\ WholeSet(j) /\ FewerReps(i, j)
            /\ DoubleGreater(stats.sets[i].weight, Zero(0))) =>
           DoubleGreater(stats.estimates[j], stats.estimates[i])

\* the two doubles next below 2 as the weights of one repetition: the heavier
\* set has the estimate of the lighter one
C22_Witness ==
  /\ Estimated
  /\ stats.sets[1].weight = BelowPower(2, 1 - Precision)
  /\ stats.sets[2].weight = BelowPower(1, 1 - Precision)
  /\ stats.sets[1].reps = DoubleOf(1)
  /\ LessWeight(1, 2)
  /\ stats.estimates[1] = stats.estimates[2]
  /\ DoubleGreater(stats.estimates[1], DoubleOf(2))


\* the records of the history whose age in whole days, in whole weeks, is k
RecordsOfWeek(k) ==
  {i \in 1..Len(history) : WholeDays(TimeMinus(now, history[i].date)) \div 7 = k}

\* the sum of totalVolume over a set of records of the history
RECURSIVE VolumeOf(_)
VolumeOf(records) ==
  IF records = {} THEN 0
  ELSE LET i == CHOOSE r \in records : TRUE
       IN history[i].totalVolume + VolumeOf(records \ {i})

\* the bucket of the rollup for week k
Bucket(k) == weeklyActivity(history, now)[weeks - k]

\* a record of the history is dated after now
DatedAfterNow == \E i \in 1..Len(history) : TimeLess(now, history[i].date)

\* the Stats view is on screen with its rollup
RollupShown == StatsOnScreen /\ stats.weeklyActivity = weeklyActivity(history, now)

\* each bucket's workouts is the number of the records of its week and its
\* volume the sum of their totalVolume; a record aged exactly seven days
\* counts in bucket 1
BucketsCount ==
  /\ Len(weeklyActivity(history, now)) = 4
  /\ \A k \in 0..3 :
       /\ Bucket(k).workouts = Cardinality(RecordsOfWeek(k))
       /\ Bucket(k).volume = VolumeOf(RecordsOfWeek(k))
  /\ \A i \in 1..Len(history) :
       TimeMinus(now, history[i].date) = Millis(7 * Day) =>
         i \in RecordsOfWeek(1) /\ Bucket(1).workouts >= 1

\* C23 as stated: in the weekly rollup every record of age a = now - date
\* counts in the bucket floor(floor(a / 1 day) / 7) and in no other when that
\* index is below 4, and in none otherwise.
C23_EveryRecordInABucket ==
  StatsRendered => (RollupShown /\ BucketsCount)

\* C23: when no record is dated after now, a record of age a = now - date
\* counts in the bucket floor(floor(a / 1 day) / 7) of the weekly rollup and
\* in no other when that index is below 4, and in none otherwise: each
\* bucket's workouts is the number of its records and its volume the sum of
\* their totalVolume; a record aged exactly seven days counts in bucket 1.
\* When a record is dated after now its index is below 0, there is no rollup
\* and the Stats view throws.
C23_WeeklyBuckets ==
  IF DatedAfterNow
  THEN weeklyActivityThrows(history, now) /\ (StatsRendered => ~StatsOnScreen)
  ELSE /\ ~weeklyActivityThrows(history, now)
       /\ BucketsCount
       /\ StatsOnScreen => RollupShown

\* a record of some volume aged exactly seven days and a record aged four
\* weeks: bucket 1 holds the one, and no bucket holds the other
C23_Witness ==
  /\ RollupShown
  /\ Len(history) = 2
  /\ TimeMinus(now, history[1].date) = Millis(7 * Day)
  /\ history[1].totalVolume > 0
  /\ TimeMinus(now, history[2].date) = Time(28, 0)
  /\ stats.weeklyActivity[weeks - 1].workouts = 1
  /\ stats.weeklyActivity[weeks - 1].volume = history[1].totalVolume
  /\ stats.weeklyActivity[weeks].workouts = 0
  /\ stats.weeklyActivity[weeks - 2].workouts = 0
  /\ stats.weeklyActivity[weeks - 3].workouts = 0

\* C29 as stated: for every history and every now, the dashboard's count of
\* this week's workouts is the workouts of bucket 0 of the weekly rollup of the
\* same history at the same time.
C29_CountsAgreeAlways ==
  StatsRendered =>
    /\ StatsOnScreen
    /\ thisWeek(history, now) = stats.weeklyActivity[weeks].workouts

\* C29: for every history none of whose records is dated after now, the
\* dashboard's count of this week's workouts, the records with
\* now - date < 7 days, is the workouts of bucket 0 of the weekly rollup of
\* the same history at the same time.  A record dated after now is counted
\* by the dashboard, and the rollup throws on it.
C29_ThisWeekIsBucketZero ==
  /\ ~DatedAfterNow =>
       /\ thisWeek(history, now) = weeklyActivity(history, now)[weeks].workouts
       /\ StatsOnScreen => thisWeek(history, now) = stats.weeklyActivity[weeks].workouts
  /\ DatedAfterNow =>
       /\ thisWeek(history, now) >= 1
       /\ weeklyActivityThrows(history, now)
       /\ ~StatsOnScreen

\* a record aged a millisecond under seven days and a record aged exactly
\* seven days: both counts are 1
C29_Witness ==
  /\ RollupShown
  /\ Len(history) = 2
  /\ TimeMinus(now, history[1].date) = Millis((7 * Day) - 1)
  /\ TimeMinus(now, history[2].date) = Millis(7 * Day)
  /\ thisWeek(history, now) = 1
  /\ stats.weeklyActivity[weeks].workouts = 1


\* a step of the session's initialisation or of one of its mutators
SessionStep == InitEffect \/ StepperChange \/ CheckClick \/ PlusClick \/ MinusClick

\* C24: deleting a plan, starting a workout, initialising its session and
\* every mutator of the session leave the history as it is; a record keeps
\* its plan name, day name and detail log when its plan is deleted.
C24_HistoryUntouched ==
  [][(DeletePlan \/ StartWorkout \/ SessionStep) => history' = history]_vars

\* the plan of a record has been deleted and the record still names it and
\* holds its detail log
C24_Witness ==
  /\ lastOp.op = "deletePlan"
  /\ plans = <<>>
  /\ Len(history) >= 1
  /\ history[Len(history)] = OpenSetRecord
  /\ history[Len(history)].planName = CustomPlan.name
  /\ phase = "idle"


\* C25: a confirmed cancel discards the live session: no session is open and
\* no plan or day is active afterwards, the history and the store are what
\* they were, and while no session is open no step adds to the history; a
\* declined cancel leaves the session, its sets and the screen as they were.
C25_CancelDiscards ==
  [][/\ (CancelWorkout /\ lastOp'.op = "cancel") =>
          /\ ~SessionOpen'
          /\ activePlan' = NoPlan
          /\ activeDayId' = NoDayId
          /\ session' = NoSession
          /\ history' = history
          /\ storage' = storage
     /\ (CancelWorkout /\ lastOp'.op = "cancelDeclined") =>
          /\ session' = session
          /\ phase' = "live"
          /\ view' = view
          /\ activePlan' = activePlan
          /\ history' = history
     /\ (~SessionOpen /\ ~SessionOpen') => history' = history]_vars

\* a cancel was declined and the next one confirmed: the session is gone, and
\* the history and the store hold the one record they held when the workout
\* started
C25_Witness ==
  /\ lastOp.op = "cancel"
  /\ lastOp.after = "cancelDeclined"
  /\ ~SessionOpen
  /\ session = NoSession
  /\ activeDayId = NoDayId
  /\ view = "DASHBOARD"
  /\ history = <<PriorRecord>>
  /\ storage.history.value = <<PriorRecord>>


\* C26: in every state of a live session every set has reps >= 0 and
\* weight >= 0, whatever the stepper's plus button, its minus button and the
\* numbers typed into its field have been used for.
C26_NonNegativeSets ==
  phase = "live" =>
    \A k \in 1..Len(session.exercises) :
      \A i \in 1..Len(session.exercises[k].sets) :
        /\ session.exercises[k].sets[i].weight >= 0
        /\ session.exercises[k].sets[i].reps >= 0


\* the scan for the name comes to an entry of that name that is empty, and
\* goes on to the next record
SkipsEmptyEntry(name, hist) ==
  \E i \in 1..Len(hist) :
    /\ NamesExercise(hist[i], name)
    /\ Len(FirstEntry(hist[i], name).sets) = 0
    /\ \A j \in 1..(i - 1) :
         NamesExercise(hist[j], name) => Len(FirstEntry(hist[j], name).sets) = 0

\* the scan for the name is decided by an entry none of whose sets is
\* completed, so that the weight of its last set is taken
TakesLiteralLast(name, hist) ==
  /\ NewestMatching(hist, name) # 0
  /\ \A n \in 1..Len(FirstEntry(hist[NewestMatching(hist, name)], name).sets) :
       ~FirstEntry(hist[NewestMatching(hist, name)], name).sets[n].completed

\* C27: in a history built by finishes alone every detail entry of every
\* record has at least one set and all its sets are completed, so that the
\* initialiser's scan never skips an empty entry and never falls back on the
\* literal last set.
C27_FinishedEntriesCompleted ==
  /\ \A i \in 1..Len(history) :
       \A k \in 1..Len(history[i].exercises) :
         /\ Len(history[i].exercises[k].sets) > 0
         /\ \A n \in 1..Len(history[i].exercises[k].sets) :
              history[i].exercises[k].sets[n].completed = TRUE
  /\ \A name \in ExerciseNames(history) :
       ~SkipsEmptyEntry(name, history) /\ ~TakesLiteralLast(name, history)

\* the first workout was finished with one Bench Press set completed and
\* another left open, and so was the second, initialised from its record and
\* given a second set by the plus button: each record holds the completed set
\* only
C27_Witness ==
  /\ Finished
  /\ Len(history) = 2
  /\ Len(history[2].exercises) = 1
  /\ history[2].exercises[1].name = BenchPress
  /\ Len(history[2].exercises[1].sets) = 1
  /\ Len(history[1].exercises) >= 1
  /\ history[1].exercises[1].name = BenchPress
  /\ Len(history[1].exercises[1].sets) = 1
  /\ history[1].exercises[1].sets[1].weight = TypedWeight


\* the step leaves the session's id, plan, day and start time, its exercises
\* and the set lists of the exercises other than e as they were
OtherListsKept(e) ==
  /\ session'.id = session.id
  /\ session'.planId = session.planId
  /\ session'.dayId = session.dayId
  /\ session'.startTime = session.startTime
  /\ Keys(session'.exercises) = Keys(session.exercises)
  /\ \A o \in Keys(session.exercises) \ {e} :
       SetsOf(session'.exercises, o) = SetsOf(session.exercises, o)

\* the step changes nothing but the field of the set at index i of exercise e
OnlyFieldWritten(e, i, field) ==
  LET before == SetsOf(session.exercises, e)
      after == SetsOf(session'.exercises, e)
  IN /\ OtherListsKept(e)
     /\ Len(after) = Len(before)
     /\ \A n \in 1..Len(before) : n # i + 1 => after[n] = before[n]
     /\ DOMAIN after[i + 1] = DOMAIN before[i + 1]
     /\ \A f \in DOMAIN before[i + 1] \ {field} : after[i + 1][f] = before[i + 1][f]

\* C28: updateSet and toggleComplete on a set of the session change only the
\* addressed field of that set: the other fields of the set, the other sets
\* of the list, its length, the lists of the other exercises and the
\* session's id, plan, day and start time stay; addSet and removeSet leave the
\* lists of the other exercises and those fields of the session as they were.
C28_MutatorsFrame ==
  [][/\ lastOp'.op = "updateSet" =>
          \A e \in DayIds(props.day) : \A i \in Rows(session, e) :
            /\ \A v \in WeightVals :
                 UpdateSet(e, i, "weight", v) =>
                   /\ OnlyFieldWritten(e, i, "weight")
                   /\ SetsOf(session'.exercises, e)[i + 1].weight = v
            /\ \A v \in RepVals :
                 UpdateSet(e, i, "reps", v) =>
                   /\ OnlyFieldWritten(e, i, "reps")
                   /\ SetsOf(session'.exercises, e)[i + 1].reps = v
     /\ lastOp'.op = "toggleComplete" =>
          \A e \in DayIds(props.day) : \A i \in Rows(session, e) :
            ToggleComplete(e, i) =>
              /\ OnlyFieldWritten(e, i, "completed")
              /\ SetsOf(session'.exercises, e)[i + 1].completed
                   = ~SetsOf(session.exercises, e)[i + 1].completed
     /\ lastOp'.op \in {"addSet", "removeSet"} =>
          \A e \in DayIds(props.day) :
            (AddSet(e) \/ RemoveSet(e)) => OtherListsKept(e)]_vars

\* the typed reps have just been written into one of two sets of an
\* exercise, the other set keeps its own reps and is completed, and a second
\* exercise holds a completed set
C28_Witness ==
  /\ lastOp = [op |-> "updateSet", changed |-> TRUE]
  /\ session.id = MountedId
  /\ Len(session.exercises) = 2
  /\ Len(session.exercises[1].sets) = 2
  /\ session.exercises[1].sets[1].reps = TypedReps
  /\ session.exercises[1].sets[2].reps # TypedReps
  /\ session.exercises[1].sets[2].completed
  /\ session.exercises[2].sets[1].completed



------------------------------------------------------------------------------
(* deletePlan and the next load of the page *)

\* C30: when the page is loaded again right after a confirmed deletePlan, every
\* plan the load effect puts into the plan list is one the deletion had left
\* there, so the deleted plan is not loaded, also when it was the last plan
C30_DeletedPlanStaysDeleted ==
  [][(lastOp.op = "deletePlan" /\ lastOp'.op = "reload")
       => PlanIds(plans') \subseteq PlanIds(plans)]_vars

====
